---- MODULE Spec2Model ----
(***************************************************************************)
(* Channel Broadcast Tracker (cbt): the scheduler (Channels.manager), the  *)
(* slot workers (Slot, Processor), the shared response queue with its      *)
(* three draining threads, the postprocessing lock and the subprocess      *)
(* monitor, as one state machine.                                          *)
(*                                                                         *)
(* Time is counted in calendar days (util.same_date compares dates only);  *)
(* a timestamp is the day it was taken on, 0 stands for None.              *)
(* A Channel object is a record.  A reference to one is either the roster  *)
(* entry itself (kind "roster") or an object the roster no longer holds    *)
(* (kind "own"), so that the in-place writes of a worker reach the roster  *)
(* exactly when the object it was handed is still the roster's.            *)
(***************************************************************************)
EXTENDS Integers, Sequences, FiniteSets, Bags, TLC

\* ---------------------------------------------------------------- bounds
NumSlots == 2
NumChannels == 3
MaxDay == 2
MaxRecursion == 4
MaxAssign == 3
MaxHooks == 2
MaxAssignRace == 4
MaxProcs == 2
MaxAssignBus == 1
MaxAssignFew == 2
\* the most lines of a channels file with duplicates
MaxLines == 3
\* the length of a roster that reaches every rank
MaxRoster == 302

\* ------------------------------------------------------ program constants
MSG_DISP == -1
MSG_SLOT == -2
MSG_CHAN == -3
None == 0
NoName == 0
Free == -1

Names == 1 .. NumChannels
Pids == 1 .. MaxProcs
Null == [kind |-> "null"]

VARIABLES
    today,     \* the wall clock's calendar day
    channels,  \* Channels.__channels: position -> Channel record
    saved,     \* the roster file as __save_channels last wrote it
    mgr,       \* the manager thread: Channels fields, manager() and __next_channel locals
    slot,      \* per Slot: its fields, its worker's locals and its Processor, and
               \* permits, the acquisitions of the lock its thread has not released
    lock,      \* the postprocess RLock: owner (Free when not held) and count
    queue,     \* the response queue
    hand,      \* per draining thread: the envelope it took and has not put back yet
    traced,    \* the <<destination, payload type>> pairs whose envelopes the model records
    display,   \* DisplayController fields
    monitor,   \* SubprocessMonitor fields
    procs,     \* the operating system's child processes, by pid
    completed, \* per channel name: the day of its last completed fetch
    budget,    \* the number of assignments the run still makes
    audit,     \* a record kept beside the program: how often the envelope under
               \* observation was put back, and the last update published per name
    main       \* main(): the settings Config holds, its position and its return value

\* the Slots of the pool (manager() line 225) and the roster's positions
Slots == DOMAIN slot
Positions == DOMAIN channels
len_channels == Cardinality(Positions)

rest == <<monitor, procs, budget, audit, main>>
vars == <<today, channels, saved, mgr, slot, lock, queue, hand, traced, display,
          completed, rest>>

\* ------------------------------------------------------------ Channel
Channel(name, rank, last_download, last_complete, last_attempt, last_error, last_error_message, last_resolution, last_bitrate) ==
    [name |-> name, rank |-> rank, last_download |-> last_download,
     last_complete |-> last_complete, last_attempt |-> last_attempt,
     last_error |-> last_error, last_error_message |-> last_error_message,
     last_resolution |-> last_resolution, last_bitrate |-> last_bitrate]

\* util.get_time(), to the day
get_time == today

\* util.same_date(dt) against the clock
same_date(dt) == dt = get_time

RosterRef(i) == [kind |-> "roster", idx |-> i]
OwnRef(c) == [kind |-> "own", val |-> c]

\* the object a reference points to
Deref(ref) == IF ref.kind = "roster" THEN channels[ref.idx] ELSE ref.val

\* record c with the fields of upd overwritten
Merge(c, upd) == [f \in DOMAIN c |-> IF f \in DOMAIN upd THEN upd[f] ELSE c[f]]

\* the roster, and the reference, after assigning the fields of upd through ref
RosterAfter(ref, upd) ==
    IF ref.kind = "roster"
    THEN [channels EXCEPT ![ref.idx] = Merge(channels[ref.idx], upd)]
    ELSE channels
RefAfter(ref, upd) ==
    IF ref.kind = "own" THEN OwnRef(Merge(ref.val, upd)) ELSE ref

\* what a reference becomes when the roster entries at positions I are replaced
Detach(ref, I) ==
    IF ref.kind = "roster"
    THEN IF ref.idx \in I THEN OwnRef(channels[ref.idx]) ELSE ref
    ELSE ref

\* ---------------------------------------------------------------- bus
Envelope(receiver, response) == [receiver |-> receiver, response |-> response]

\* q.put(...): the model keeps the envelopes of the traced destinations and
\* payload types only
Put(q, env) ==
    IF <<env.receiver, env.response.type>> \in traced THEN Append(q, env) ELSE q

\* the types of the payloads and every pair of a destination in D with one
PayloadTypes ==
    {"HealthBar", "StatusBarMessage", "CurrentChannel", "None", "FINISHED",
     "UNRESPONSIVE", "RECORDING", "Channel", "CurrentSlot", "FileInfo", "int"}
Every(D) == D \X PayloadTypes

RECURSIVE PutAll(_, _)
PutAll(q, envs) ==
    IF envs = <<>> THEN q ELSE PutAll(Put(q, Head(envs)), Tail(envs))

\* ------------------------------------------------------------ payloads
HealthBar == [type |-> "HealthBar"]
StatusBarMessage(important, message) ==
    [type |-> "StatusBarMessage", important |-> important, message |-> message]
CurrentChannel(status, processor) ==
    [type |-> "CurrentChannel", status |-> status, processor |-> processor]
NonePayload == [type |-> "None"]
FIN == [type |-> "FINISHED"]
UNR == [type |-> "UNRESPONSIVE"]
REC == [type |-> "RECORDING"]
\* replace(channel), replace(slot_status): a copy of the object as it is now
ChannelCopy(c) == [type |-> "Channel", channel |-> c]
StatusCopy(st) == [type |-> "CurrentSlot", status |-> st]

\* ---------------------------------------------------------- scheduler
\* Channels.__get_rank(index)
\* a __get_rank whose tiers end one position early
get_rank_below(index) ==
    IF index < 25 THEN 0
    ELSE IF index < 50 THEN 1
    ELSE IF index < 100 THEN 2
    ELSE IF index < 200 THEN 3
    ELSE IF index < 300 THEN 4
    ELSE 5

get_rank(index) ==
    IF index <= 25 THEN 0
    ELSE IF index <= 50 THEN 1
    ELSE IF index <= 100 THEN 2
    ELSE IF index <= 200 THEN 3
    ELSE IF index <= 300 THEN 4
    ELSE 5

\* Slot.get_name(): the name of __active_channel, "" (NoName) when it is None;
\* the model keeps the name of the active channel, the only part ever read
get_name(s) == slot[s].active_channel
\* a check_name that answers for the first Slot of the pool only
check_name_first(s, name) == s = 0 /\ name = get_name(s)
check_name(s, name) == name = get_name(s)
\* a busy() that answers True only while the worker runs the Fetcher
is_busy_fetching(s) == slot[s].pc \in {"fetching", "acquire"}
is_busy(s) == slot[s].busy

\* a while loop that skips no channel
CompletedNever(c) == FALSE
\* the test of the while loop of __next_channel
CompletedToday(c) == c.last_complete # None /\ same_date(c.last_complete)

\* the envelopes one __health_check publishes
HealthEnvelopes(warn) ==
    (IF warn THEN <<Envelope(MSG_DISP, StatusBarMessage("Warning", "drive"))>>
     ELSE <<>>) \o <<Envelope(MSG_DISP, HealthBar)>>

\* depth of the running __next_channel call: its parameter recursions
recursions == Len(mgr.frames)

\* entry of self.__next_channel(index, slots, 0) for the Slot at position s
StartSearch(m, s, index) ==
    [m EXCEPT !.pc = "while", !.slot = s, !.current_index = index,
              !.ch = RosterRef(index), !.frames = <<>>, !.j = 0]

\* head of manager()'s while loop: the health check, then the first Slot's search
MgrIterate(due, warn) ==
    /\ mgr.pc = "iter"
    /\ mgr.running /\ mgr.status_value = 0
    /\ LET check == ~mgr.health_checked \/ due IN
       /\ queue' = IF check THEN PutAll(queue, HealthEnvelopes(warn)) ELSE queue
       /\ mgr' = [StartSearch(mgr, 0, mgr.channel_index) EXCEPT !.health_checked = TRUE]
    /\ UNCHANGED <<today, channels, saved, slot, lock, hand, traced, display,
                   completed, rest>>

\* one turn of the while loop of __next_channel: the candidate completed today
SearchWhile ==
    /\ mgr.pc = "while"
    /\ CompletedToday(Deref(mgr.ch))
    /\ LET next == (mgr.current_index + 1) % len_channels IN
       mgr' = [mgr EXCEPT !.current_index = next, !.ch = RosterRef(next)]
    /\ UNCHANGED <<today, channels, saved, slot, lock, queue, hand, traced, display,
                   completed, rest>>

\* the call is in its for loop: the while loop has ended, or a recursive call returned
InFor == mgr.pc = "for" \/ (mgr.pc = "while" /\ ~CompletedToday(Deref(mgr.ch)))
ForFrom == IF mgr.pc = "for" THEN mgr.j ELSE 0
\* the test of the for loop for the Slot at position j
Held(j) == mgr.running /\ check_name(j, Deref(mgr.ch).name)
Hits == {j \in Slots : j >= ForFrom /\ Held(j)}
FirstHit == CHOOSE j \in Hits : \A k \in Hits : j <= k

\* the for loop finds a Slot holding the candidate's name: the recursive call
SearchRecurse ==
    /\ InFor /\ Hits # {}
    /\ recursions < MaxRecursion
    /\ LET next == (mgr.current_index + 1) % len_channels IN
       mgr' = [mgr EXCEPT !.pc = "while", !.current_index = next,
                          !.ch = RosterRef(next),
                          !.frames = <<FirstHit>> \o mgr.frames, !.j = 0]
    /\ UNCHANGED <<today, channels, saved, slot, lock, queue, hand, traced, display,
                   completed, rest>>

\* the recursive call that exceeds the interpreter's limit: manager() handles
\* the RecursionError
SearchRecursionError ==
    /\ InFor /\ Hits # {}
    /\ recursions >= MaxRecursion
    /\ mgr' = [mgr EXCEPT !.pc = "iter", !.status_value = 1,
                          !.status = "RecursionError", !.running = FALSE,
                          !.frames = <<>>, !.j = 0]
    /\ UNCHANGED <<today, channels, saved, slot, lock, queue, hand, traced, display,
                   completed, rest>>

\* a recursive call returns: the caller takes its result and goes on with its loop
SearchReturnInner ==
    /\ InFor /\ Hits = {}
    /\ mgr.frames # <<>>
    /\ mgr' = [mgr EXCEPT !.pc = "for", !.j = Head(mgr.frames) + 1,
                          !.frames = Tail(mgr.frames)]
    /\ UNCHANGED <<today, channels, saved, slot, lock, queue, hand, traced, display,
                   completed, rest>>

\* the outermost call returns to manager()
SearchReturn ==
    /\ InFor /\ Hits = {}
    /\ mgr.frames = <<>>
    /\ mgr' = [mgr EXCEPT !.pc = "picked", !.channel_index = mgr.current_index, !.j = 0]
    /\ UNCHANGED <<today, channels, saved, slot, lock, queue, hand, traced, display,
                   completed, rest>>

\* a process() that hands the channel over without raising the busy flag
process_unflagged(sl, ref) ==
    [sl EXCEPT !.active_channel = Deref(ref).name,
               !.waiting_channel = ref, !.channel_event = TRUE]
\* Slot.process(channel)
process(sl, ref) ==
    [sl EXCEPT !.busy = TRUE, !.active_channel = Deref(ref).name,
               !.waiting_channel = ref, !.channel_event = TRUE]

\* the rest of the for body of manager() for the Slot mgr.slot
MgrAssign(elapsed) ==
    /\ mgr.pc = "picked"
    /\ LET s == mgr.slot
           running == mgr.running /\ ~display.shutdown_requested
           assign == running /\ ~is_busy(s)
           upd == [rank |-> get_rank(mgr.channel_index), last_attempt |-> get_time]
           roster == IF assign THEN RosterAfter(mgr.ch, upd) ELSE channels
           ref == IF assign THEN RefAfter(mgr.ch, upd) ELSE mgr.ch
           index == IF elapsed THEN 0
                    ELSE IF assign THEN (mgr.channel_index + 1) % len_channels
                    ELSE mgr.channel_index
           m == [mgr EXCEPT !.running = running, !.channel_index = index, !.ch = ref]
       IN
       /\ assign => budget > 0
       /\ budget' = IF assign THEN budget - 1 ELSE budget
       /\ channels' = roster
       /\ slot' = IF assign THEN [slot EXCEPT ![s] = process(slot[s], ref)] ELSE slot
       /\ saved' = IF elapsed THEN roster ELSE saved
       /\ mgr' = IF s + 1 \in Slots THEN StartSearch(m, s + 1, index)
                 ELSE [m EXCEPT !.pc = "iter"]
    /\ UNCHANGED <<today, lock, queue, hand, traced, display, completed, monitor,
                   procs, audit, main>>

\* manager() after its while loop
MgrStop ==
    /\ mgr.pc = "iter"
    /\ ~(mgr.running /\ mgr.status_value = 0)
    /\ slot' = [s \in Slots |-> [slot[s] EXCEPT !.shutdown = TRUE, !.channel_event = TRUE]]
    /\ monitor' = [monitor EXCEPT !.shutdown = TRUE]
    /\ saved' = channels
    /\ display' = [display EXCEPT !.listening = FALSE, !.shutdown_requested = TRUE]
    /\ mgr' = [mgr EXCEPT !.pc = "done"]
    /\ UNCHANGED <<today, channels, lock, queue, hand, traced, completed, procs,
                   budget, audit, main>>

\* the main thread is inside the try of manager()'s loop (channels.py 230-244)
InTry == mgr.pc \in {"while", "for", "picked"} \/ (mgr.pc = "iter" /\ mgr.running)

\* a statement of the try body raises an exception that is neither
\* KeyboardInterrupt nor RecursionError (channels.py 252-256)
MgrRaise ==
    /\ InTry
    /\ mgr' = [mgr EXCEPT !.pc = "iter", !.status_value = 1, !.status = "Exception",
                          !.running = FALSE, !.frames = <<>>, !.j = 0]
    /\ UNCHANGED <<today, channels, saved, slot, lock, queue, hand, traced, display,
                   completed, rest>>

\* SIGINT reaches the main thread inside the try: the handler starts its sleep
\* of Config.KILL seconds (channels.py 245-246)
MgrInterrupt ==
    /\ InTry
    /\ mgr' = [mgr EXCEPT !.pc = "handler", !.frames = <<>>, !.j = 0]
    /\ UNCHANGED <<today, channels, saved, slot, lock, queue, hand, traced, display,
                   completed, rest>>

\* the handler's sleep ends (channels.py 247)
MgrHandled ==
    /\ mgr.pc = "handler"
    /\ mgr' = [mgr EXCEPT !.pc = "iter", !.running = FALSE]
    /\ UNCHANGED <<today, channels, saved, slot, lock, queue, hand, traced, display,
                   completed, rest>>

\* SIGINT reaches the main thread during the handler's sleep: a KeyboardInterrupt
\* raised inside an except clause is caught by no clause of that try, it leaves
\* manager() and main(), which does not catch it (__main__.py 32-33)
MgrInterruptAgain ==
    /\ mgr.pc = "handler"
    /\ mgr' = [mgr EXCEPT !.pc = "aborted"]
    /\ UNCHANGED <<today, channels, saved, slot, lock, queue, hand, traced, display,
                   completed, rest>>

\* ------------------------------------------------------------ slot worker
\* the CurrentSlot the worker builds after taking channel c (slot.py 219-232)
CurrentSlot(s, c, sequence) ==
    [index |-> s, channel_name |-> c.name, channel_rank |-> c.rank,
     previous_download |-> c.last_complete, is_downloading |-> TRUE,
     is_active |-> ~slot[s].shutdown, is_complete |-> FALSE, has_error |-> "None",
     status_message |-> "", sequence |-> sequence]

\* the fields the worker writes for the outcome st (slot.py 247-253)
Outcome(st) ==
    IF st.is_complete
    THEN [last_complete |-> get_time, last_resolution |-> "res", last_bitrate |-> "tbr"]
    ELSE [last_error |-> get_time, last_error_message |-> st.status_message]

\* the end of the try body of __worker_loop (slot.py 247-264) and its finally:
\* the outcome st is written to the channel object and the four envelopes go out;
\* sl is the Slot as the worker has left it so far
\* a worker whose finally clause does not reset the flag
worker_finally_skipped(sl) == sl
\* the finally clause of the worker's try (slot.py 273-275)
worker_finally(sl) == [sl EXCEPT !.busy = FALSE]

Finish(s, sl, ref, roster, st, q) ==
    LET upd == Outcome(st)
        obj == Merge(IF ref.kind = "roster" THEN roster[ref.idx] ELSE ref.val, upd)
        message == IF st.status_message = "" THEN "OK" ELSE st.status_message
    IN
    /\ channels' = IF ref.kind = "roster" THEN [roster EXCEPT ![ref.idx] = obj]
                   ELSE roster
    /\ completed' = IF st.is_complete
                    THEN [completed EXCEPT ![obj.name] = get_time] ELSE completed
    /\ queue' = PutAll(q, <<Envelope(MSG_CHAN, ChannelCopy(obj)),
                            Envelope(s, StatusCopy(st)),
                            Envelope(s, FIN),
                            Envelope(MSG_DISP, StatusBarMessage("Notice", message))>>)
    /\ slot' = [slot EXCEPT ![s] = worker_finally([sl EXCEPT !.pc = "wait",
                                                              !.channel = Null,
                                                              !.slot_status = Null,
                                                              !.hooks = 0])]
    /\ audit' = IF audit.ordering THEN [audit EXCEPT !.latest[obj.name] = obj] ELSE audit

\* the worker wakes with a waiting channel (slot.py 214-246): it takes the channel,
\* stamps its status and extracts; ext is what Processor.extract and get_error
\* give, "raise" for an extract_info that raises (processor.py 41)
WorkerStart(s, ext) ==
    /\ slot[s].pc = "wait" /\ ~slot[s].shutdown
    /\ slot[s].channel_event /\ slot[s].waiting_channel # Null
    /\ LET ref0 == slot[s].waiting_channel
           st == CurrentSlot(s, Deref(ref0), slot[s].sequence)
           taken == [slot[s] EXCEPT !.waiting_channel = Null, !.channel_event = FALSE,
                                    !.sequence = @ + 1]
       IN
       IF ext = "ok"
       THEN LET upd == [last_attempt |-> get_time, last_download |-> get_time,
                        last_resolution |-> "res", last_bitrate |-> "tbr"]
            IN
            /\ channels' = RosterAfter(ref0, upd)
            /\ slot' = [slot EXCEPT ![s] = [taken EXCEPT !.channel = RefAfter(ref0, upd),
                                                          !.slot_status = st,
                                                          !.hooks = 0,
                                                          !.pc = "fetching"]]
            /\ queue' = PutAll(queue, <<Envelope(s, StatusCopy(st)),
                                        Envelope(s, CurrentChannel("", ""))>>)
            /\ UNCHANGED <<completed, audit>>
       ELSE LET upd == [last_attempt |-> get_time]
                failed == [st EXCEPT !.has_error = IF ext = "error" THEN "True" ELSE "False",
                                     !.status_message = IF ext = "error" THEN "extract error"
                                                        ELSE "",
                                     !.is_downloading = FALSE]
            IN
            IF ext # "raise" /\ slot[s].filename = NoName
            THEN Finish(s, taken, RefAfter(ref0, upd), RosterAfter(ref0, upd), failed, queue)
            ELSE \* __remove_temp_file (slot.py 279-291) has a file name: whether or not
                 \* os.remove finds the file it ends in a handler that calls
                 \* self.__processor.get_logger(), which Processor does not define;
                 \* the AttributeError, like the exception of extract_info, goes
                 \* to the worker's except Exception and finally (slot.py 270-275)
                 /\ channels' = RosterAfter(ref0, upd)
                 /\ queue' = Put(queue, Envelope(MSG_DISP,
                                   StatusBarMessage("Error",
                                       IF ext = "raise" THEN "extract_info raised"
                                       ELSE "no attribute get_logger")))
                 /\ slot' = [slot EXCEPT ![s] = worker_finally(taken)]
                 /\ UNCHANGED <<completed, audit>>
    /\ UNCHANGED <<today, saved, mgr, lock, hand, traced, display, monitor, procs,
                   budget, main>>

\* the worker's wait times out, or it wakes without a waiting channel: it goes to
\* the else branch (slot.py 276)
WorkerWaitElse(s) ==
    /\ slot[s].pc = "wait" /\ ~slot[s].shutdown
    /\ ~(slot[s].channel_event /\ slot[s].waiting_channel # Null)
    /\ slot' = [slot EXCEPT ![s].pc = "clear"]
    /\ UNCHANGED <<today, channels, saved, mgr, lock, queue, hand, traced, display,
                   completed, rest>>

\* the else branch: self.__channel_event.clear() (slot.py 277)
WorkerClear(s) ==
    /\ slot[s].pc = "clear"
    /\ slot' = [slot EXCEPT ![s].pc = "wait", ![s].channel_event = FALSE]
    /\ UNCHANGED <<today, channels, saved, mgr, lock, queue, hand, traced, display,
                   completed, rest>>

\* while not self.__shutdown fails: the worker thread ends
WorkerExit(s) ==
    /\ slot[s].pc = "wait" /\ slot[s].shutdown
    /\ slot' = [slot EXCEPT ![s].pc = "exit"]
    /\ UNCHANGED <<today, channels, saved, mgr, lock, queue, hand, traced, display,
                   completed, rest>>

\* -------------------------------------------------------------- processor
\* threading.RLock: acquire by thread s, and whether it would not block
acquire(l, s) == [owner |-> s, count |-> l.count + 1]
\* a lock that never makes a thread wait
can_acquire_always(l, s) == TRUE
can_acquire(l, s) == l.owner = Free \/ l.owner = s
\* release by the owning thread
release(l) == IF l.count = 1 THEN [owner |-> Free, count |-> 0]
              ELSE [l EXCEPT !.count = @ - 1]

\* __common_hook for an event that is not the end of the progress phase
HookOther(s, status, processor) ==
    /\ slot[s].pc = "fetching"
    /\ slot[s].hooks < MaxHooks
    /\ ~(processor = "progress" /\ status = "finished")
    /\ queue' = Put(queue, Envelope(s, CurrentChannel(status, processor)))
    /\ slot' = [slot EXCEPT ![s].hooks = @ + 1]
    /\ UNCHANGED <<today, channels, saved, mgr, lock, hand, traced, display,
                   completed, rest>>

\* __common_hook for the finalize signal (processor.py 117-132) of a fetch that
\* ran long enough: up to the call of acquire
HookFinished(s) ==
    /\ slot[s].pc = "fetching"
    /\ slot[s].hooks < MaxHooks
    /\ queue' = PutAll(queue,
           <<Envelope(s, CurrentChannel("finished", "progress")),
             Envelope(MSG_DISP, StatusBarMessage("Notice", "Acquiring lock"))>>)
    /\ slot' = [slot EXCEPT ![s].hooks = @ + 1, ![s].process_lock_status = TRUE,
                            ![s].pc = "acquire"]
    /\ UNCHANGED <<today, channels, saved, mgr, lock, hand, traced, display,
                   completed, rest>>

\* self.__process_lock.acquire() returns (processor.py 133-139)
HookAcquire(s) ==
    /\ slot[s].pc = "acquire"
    /\ can_acquire(lock, s)
    /\ lock' = acquire(lock, s)
    /\ queue' = Put(queue, Envelope(MSG_DISP, StatusBarMessage("Notice", "Acquired lock")))
    /\ slot' = [slot EXCEPT ![s].pc = "fetching", ![s].permits = @ + 1]
    /\ UNCHANGED <<today, channels, saved, mgr, hand, traced, display, completed, rest>>

\* Processor.download from the end of the Fetcher's call (processor.py 79-107) and
\* the worker after it (slot.py 240-275); pre are the envelopes put before, result
\* and response_message are download's locals
DownloadReturn(s, pre, result, response_message) ==
    /\ slot[s].pc = "fetching"
    /\ LET releasing == Envelope(MSG_DISP, StatusBarMessage("Notice", "Releasing lock"))
           released == Envelope(MSG_DISP, StatusBarMessage("Notice", "Released lock"))
       IN
       IF lock.owner = s
       THEN LET st == [slot[s].slot_status EXCEPT
                           !.has_error = IF result THEN "False" ELSE "True",
                           !.status_message = response_message,
                           !.is_complete = result]
            IN
            /\ lock' = release(lock)
            /\ Finish(s, [slot[s] EXCEPT !.process_lock_status = FALSE,
                                         !.permits = @ - 1],
                      slot[s].channel, channels, st,
                      PutAll(queue, pre \o <<releasing, released>>))
       ELSE \* release() of a lock this thread does not own raises RuntimeError,
            \* which neither except clause of download catches: the worker's
            \* except Exception and finally run (slot.py 270-275)
            /\ queue' = PutAll(queue, pre \o <<releasing,
                   Envelope(MSG_DISP, StatusBarMessage("Error", "cannot release un-acquired lock"))>>)
            /\ slot' = [slot EXCEPT ![s] = worker_finally([@ EXCEPT !.pc = "wait",
                                                                    !.channel = Null,
                                                                    !.slot_status = Null,
                                                                    !.hooks = 0])]
            /\ UNCHANGED <<channels, completed, lock, audit>>
    /\ UNCHANGED <<today, saved, mgr, hand, traced, display, monitor, procs, budget,
                   main>>

\* the Fetcher's download call ends: r is "truthy" or "falsy" for the value it
\* returns and "raise" for an exception
FetchEnd(s, r) ==
    DownloadReturn(s, <<>>, r = "truthy", IF r = "raise" THEN "fetch error" ELSE "")

\* __common_hook for the finalize signal of a fetch shorter than the minimum
\* duration: RejectedVideoReached ends the Fetcher's call (processor.py 121-125)
HookFinishedShort(s) ==
    DownloadReturn(s, <<Envelope(s, CurrentChannel("finished", "progress"))>>,
                   FALSE, "Duration too short")

\* ------------------------------------------------- the draining threads
\* "chan" is Channels.__slot_callback, "mon" SubprocessMonitor.__monitor_loop and
\* "disp" DisplayController.__control_loop
Consumers == {"chan", "mon", "disp"}

\* the branch of consumer c's loop that handles envelope e instead of re-putting it
Owns(c, e) ==
    CASE c = "chan" -> e.receiver = MSG_CHAN
      [] c = "mon"  -> e.receiver = MSG_SLOT
      [] c = "disp" -> e.receiver = MSG_DISP \/ (e.receiver >= 0 /\ e.response # NonePayload)

\* the loop condition of consumer c
Alive(c) ==
    CASE c = "chan" -> mgr.running
      [] c = "mon"  -> ~monitor.shutdown /\ ~monitor.crashed
      [] c = "disp" -> display.listening

\* q.get() by consumer c of an envelope that is not its own
TakeOther(c) ==
    /\ Alive(c) /\ hand[c] = Null
    /\ queue # <<>> /\ ~Owns(c, Head(queue))
    /\ hand' = [hand EXCEPT ![c] = Head(queue)]
    /\ queue' = Tail(queue)
    /\ UNCHANGED <<today, channels, saved, mgr, slot, lock, traced, display,
                   completed, rest>>

\* a put-back that keeps the destination and loses the payload
RequeuedEmpty(e) == Envelope(e.receiver, NonePayload)
\* the envelope a consumer puts back: q.put((receiver, response))
Requeued(e) == Envelope(e.receiver, e.response)

PutBack(c) ==
    /\ hand[c] # Null
    /\ queue' = Append(queue, Requeued(hand[c]))
    /\ hand' = [hand EXCEPT ![c] = Null]
    /\ audit' = IF audit.counting /\ audit.requeues < Cardinality(Consumers)
                THEN [audit EXCEPT !.requeues = @ + 1] ELSE audit
    /\ UNCHANGED <<today, channels, saved, mgr, slot, lock, traced, display,
                   completed, monitor, procs, budget, main>>

\* a __slot_callback that puts the Channel it takes at the head of the roster
CallbackDeliverFirst ==
    /\ Alive("chan")
    /\ queue # <<>> /\ Owns("chan", Head(queue))
    /\ LET e == Head(queue)
           I == IF e.response.type = "Channel" THEN {0} ELSE {}
       IN
       /\ channels' = [i \in Positions |->
                          IF i \in I THEN e.response.channel ELSE channels[i]]
       /\ mgr' = [mgr EXCEPT !.ch = Detach(@, I)]
       /\ slot' = [s \in Slots |->
                      [slot[s] EXCEPT !.waiting_channel = Detach(@, I),
                                      !.channel = Detach(@, I)]]
    /\ queue' = Tail(queue)
    /\ UNCHANGED <<today, saved, lock, hand, traced, display, completed, monitor,
                   procs, budget, audit, main>>

\* __slot_callback takes a MSG_CHAN envelope: a Channel replaces every roster
\* entry of its name (channels.py 142-146)
CallbackDeliver ==
    /\ Alive("chan")
    /\ queue # <<>> /\ Owns("chan", Head(queue))
    /\ LET e == Head(queue)
           I == IF e.response.type = "Channel"
                THEN {i \in Positions : channels[i].name = e.response.channel.name}
                ELSE {}
       IN
       /\ channels' = [i \in Positions |->
                          IF i \in I THEN e.response.channel ELSE channels[i]]
       /\ mgr' = [mgr EXCEPT !.ch = Detach(@, I)]
       /\ slot' = [s \in Slots |->
                      [slot[s] EXCEPT !.waiting_channel = Detach(@, I),
                                      !.channel = Detach(@, I)]]
    /\ queue' = Tail(queue)
    /\ UNCHANGED <<today, saved, lock, hand, traced, display, completed, monitor,
                   procs, budget, audit, main>>

CallbackTake == TakeOther("chan")
CallbackPut == PutBack("chan")
MonitorTake == TakeOther("mon")
MonitorPut == PutBack("mon")
DisplayTake == TakeOther("disp")
DisplayPut == PutBack("disp")

\* ---------------------------------------------------------------- display
\* the SlotStatus the control loop creates for a Slot it has not seen
\* (display.py 167-173); of the columns the model keeps channel and status
NewSlotStatus ==
    [channel |-> <<>>, status |-> "inactive", started |-> FALSE,
     is_downloading |-> FALSE, sequence |-> -1]

\* __update_channel_slot and the assignment after it (display.py 223-225)
update_channel_slot(col, cc) ==
    [col EXCEPT !.channel = IF cc.processor # "progress" THEN <<"id", cc.status>>
                            ELSE <<"id">>,
                !.status = IF cc.processor # "progress"
                           THEN (IF cc.status = "finished" THEN "inactive"
                                 ELSE "processing")
                           ELSE @,
                !.is_downloading = IF cc.status = "finished" THEN FALSE ELSE @]

\* the body of the CurrentSlot branch (display.py 227-233) with __update_slot_slot
update_slot_slot(col, cs) ==
    [col EXCEPT !.sequence = cs.sequence,
                !.channel = IF cs.has_error = "True"
                            THEN <<cs.channel_name, cs.status_message>>
                            ELSE <<cs.channel_name>>,
                !.status = IF cs.has_error = "True" THEN "error"
                           ELSE IF cs.is_downloading THEN "processing"
                           ELSE "inactive",
                !.started = IF cs.is_downloading THEN FALSE ELSE @,
                !.is_downloading = cs.is_downloading]

\* a __process_response that takes a CurrentSlot only when its sequence is newer
process_response_newer(col, response) ==
    CASE response.type = "CurrentChannel" -> update_channel_slot(col, response)
      [] response.type = "CurrentSlot" ->
             IF response.status.sequence > col.sequence
             THEN update_slot_slot(col, response.status)
             ELSE col
      [] response.type = "RECORDING" -> [col EXCEPT !.started = TRUE]
      [] response.type = "UNRESPONSIVE" -> [col EXCEPT !.is_downloading = FALSE]
      [] OTHER -> col

\* a __process_response that takes every CurrentSlot
process_response_any(col, response) ==
    CASE response.type = "CurrentChannel" -> update_channel_slot(col, response)
      [] response.type = "CurrentSlot" -> update_slot_slot(col, response.status)
      [] response.type = "RECORDING" -> [col EXCEPT !.started = TRUE]
      [] response.type = "UNRESPONSIVE" -> [col EXCEPT !.is_downloading = FALSE]
      [] OTHER -> col

\* DisplayController.__process_response
process_response(col, response) ==
    CASE response.type = "CurrentChannel" -> update_channel_slot(col, response)
      [] response.type = "CurrentSlot" ->
             IF response.status.sequence >= col.sequence
             THEN update_slot_slot(col, response.status)
             ELSE col
      [] response.type = "RECORDING" -> [col EXCEPT !.started = TRUE]
      [] response.type = "UNRESPONSIVE" -> [col EXCEPT !.is_downloading = FALSE]
      [] OTHER -> col

\* DisplayController.__process_display_response
process_display_response(d, response) ==
    CASE response.type = "StatusBarMessage" ->
             [d EXCEPT !.status_bar = <<response.important, response.message>>]
      [] response.type = "HealthBar" ->
             [d EXCEPT !.health_bar =
                  IF d.completion_requested \/ d.shutdown_requested
                  THEN "Shutting down" ELSE "bar"]
      [] OTHER -> d

\* the control loop takes an envelope of its own (display.py 163-176)
DisplayDeliver ==
    /\ Alive("disp")
    /\ queue # <<>> /\ Owns("disp", Head(queue))
    /\ LET e == Head(queue) IN
       display' =
            IF e.receiver = MSG_DISP THEN process_display_response(display, e.response)
            ELSE LET col == IF display.slot_columns[e.receiver] = Null
                            THEN NewSlotStatus
                            ELSE display.slot_columns[e.receiver]
                 IN [display EXCEPT !.slot_columns[e.receiver] =
                                        process_response(col, e.response)]
    /\ queue' = Tail(queue)
    /\ UNCHANGED <<today, channels, saved, mgr, slot, lock, hand, traced,
                   completed, monitor, procs, budget, audit, main>>

\* __check_keypress reads 'q' (display.py 329-353)
KeyQuit ==
    /\ Alive("disp")
    /\ ~display.shutdown_requested
    /\ display' = [display EXCEPT !.shutdown_requested = TRUE, !.listening = FALSE,
                                  !.status_bar = <<"Notice", "Shutting down...">>]
    /\ UNCHANGED <<today, channels, saved, mgr, slot, lock, queue, hand, traced,
                   completed, rest>>

\* ------------------------------------------------- child processes
\* a pid the operating system has not given out, and a child of the program:
\* cmd is the file named on its command line, overdue says that more than
\* subprocess_timeout has passed since the monitor captured it, stubborn that
\* it survives SIGTERM, signals what it was sent
NoProc == [state |-> "none"]
Child(cmd, stubborn) ==
    [state |-> "alive", cmd |-> cmd, overdue |-> FALSE, stubborn |-> stubborn,
     signals |-> <<>>]

\* the Fetcher's log names the file it downloads to (logger.py 51-54)
FetchDestination(s) ==
    /\ slot[s].pc = "fetching"
    /\ slot[s].filename # Deref(slot[s].channel).name
    /\ slot' = [slot EXCEPT ![s].filename = Deref(slot[s].channel).name]
    /\ UNCHANGED <<today, channels, saved, mgr, lock, queue, hand, traced, display,
                   completed, rest>>

\* the Fetcher starts a child process that writes the file of Slot s
Spawn(s, stubborn) ==
    /\ slot[s].pc = "fetching" /\ slot[s].filename = Deref(slot[s].channel).name
    /\ \E p \in Pids :
        /\ procs[p] = NoProc
        /\ \A q \in Pids : q < p => procs[q] # NoProc
        /\ procs' = [procs EXCEPT ![p] = Child(slot[s].filename, stubborn)]
    /\ UNCHANGED <<today, channels, saved, mgr, slot, lock, queue, hand, traced,
                   display, completed, monitor, budget, audit, main>>

\* a child ends by itself
ChildExit(p) ==
    /\ procs[p].state = "alive"
    /\ procs' = [procs EXCEPT ![p].state = "dead"]
    /\ UNCHANGED <<today, channels, saved, mgr, slot, lock, queue, hand, traced,
                   display, completed, monitor, budget, audit, main>>

\* subprocess_timeout passes for a captured child
Overdue(p) ==
    /\ procs[p].state = "alive" /\ ~procs[p].overdue
    /\ monitor.subprocesses[p] # Null
    /\ procs' = [procs EXCEPT ![p].overdue = TRUE]
    /\ UNCHANGED <<today, channels, saved, mgr, slot, lock, queue, hand, traced,
                   display, completed, monitor, budget, audit, main>>

\* os.kill(pid, SIGTERM); sleep; os.kill(pid, 0); os.kill(pid, SIGKILL) with the
\* OSError of a process that is gone (slot.py 157-160, 175-178)
Terminated(pr) ==
    IF pr.state = "alive"
    THEN [pr EXCEPT !.state = "dead",
                    !.signals = @ \o (IF pr.stubborn THEN <<"TERM", "KILL">>
                                      ELSE <<"TERM">>)]
    ELSE pr

\* ---------------------------------------------------------- the monitor
FileInfo(slot_index, filename) ==
    [type |-> "FileInfo", slot_index |-> slot_index, filename |-> filename]
KillRequest(slot_index) == [type |-> "int", value |-> slot_index]
\* CapturedProcess.slot_index of a child not attributed to a Slot (None)
NoSlot == -1
\* a file name that is None or "" is NoName: the code only tests its truth
CapturedProcess(slot_index, match, time, filename) ==
    [slot_index |-> slot_index, match |-> match, time |-> time, filename |-> filename]

\* Slot.__worker_monitor, one turn of its loop while the Slot is busy
WorkerMonitor(s) ==
    /\ ~slot[s].shutdown /\ slot[s].busy
    /\ <<MSG_SLOT, "FileInfo">> \in traced
    /\ ~ \E i \in 1 .. Len(queue) : queue[i].receiver = MSG_SLOT
    /\ queue' = Put(queue, Envelope(MSG_SLOT, FileInfo(s, slot[s].filename)))
    /\ UNCHANGED <<today, channels, saved, mgr, slot, lock, hand, traced, display,
                   completed, rest>>

\* __process_dead_processes: the children it signals.  Its second loop tests
\* "pid in self.__subprocesses.items()", which no pid satisfies, so it neither
\* publishes nor deletes
process_dead_processes(pr) ==
    [p \in Pids |->
        IF monitor.subprocesses[p] # Null /\ pr[p].state = "alive" /\ pr[p].overdue
        THEN Terminated(pr[p]) ELSE pr[p]]

\* __scan_for_children: the table after capturing the children of pr and
\* attributing them by file name
Captured(pr) ==
    [p \in Pids |->
        IF monitor.subprocesses[p] = Null /\ pr[p].state = "alive"
        THEN CapturedProcess(NoSlot, pr[p].cmd, get_time, NoName)
        ELSE monitor.subprocesses[p]]
Attributable(table, i, p) ==
    /\ table[p] # Null
    /\ table[p].slot_index = NoSlot
    /\ monitor.filenames[i] # NoName /\ monitor.filenames[i] = table[p].match
AttributedTo(table, p) ==
    CHOOSE i \in Slots : Attributable(table, i, p) /\
        \A k \in Slots : Attributable(table, k, p) => i <= k
scan_for_children(pr) ==
    IF \A p \in Pids : pr[p].state # "alive" THEN monitor.subprocesses
    ELSE LET table == Captured(pr) IN
         [p \in Pids |->
            IF \E i \in Slots : Attributable(table, i, p)
            THEN CapturedProcess(AttributedTo(table, p), table[p].match,
                                 table[p].time, monitor.filenames[AttributedTo(table, p)])
            ELSE table[p]]

\* the RECORDING envelopes of a scan, in the order of its two loops: by Slot,
\* then by pid (the model takes the Slots of __filenames in index order)
RECURSIVE RecOfSlot(_, _, _, _)
RecOfSlot(before, after, i, P) ==
    IF P = {} THEN <<>>
    ELSE LET p == CHOOSE x \in P : \A y \in P : x <= y IN
         (IF after[p] # Null /\ before[p] # after[p] /\ after[p].slot_index = i
          THEN <<Envelope(i, REC)>> ELSE <<>>)
         \o RecOfSlot(before, after, i, P \ {p})
RECURSIVE RecEnvelopes(_, _, _)
RecEnvelopes(before, after, S) ==
    IF S = {} THEN <<>>
    ELSE LET i == CHOOSE x \in S : \A y \in S : x <= y IN
         RecOfSlot(before, after, i, Pids) \o RecEnvelopes(before, after, S \ {i})

\* an __update_filesizes that addresses its FileInfo to __slot_callback
RECURSIVE SizeEnvelopesToRoster(_, _, _)
SizeEnvelopesToRoster(table, grown, P) ==
    IF P = {} THEN <<>>
    ELSE LET p == CHOOSE x \in P : \A y \in P : x <= y IN
         (IF table[p] # Null /\ p \in grown /\ table[p].filename # NoName
          THEN <<Envelope(MSG_CHAN, FileInfo(table[p].slot_index, table[p].filename))>>
          ELSE <<>>)
         \o SizeEnvelopesToRoster(table, grown, P \ {p})

\* __update_filesizes: a FileInfo for each attributed child whose file has grown
RECURSIVE SizeEnvelopes(_, _, _)
SizeEnvelopes(table, grown, P) ==
    IF P = {} THEN <<>>
    ELSE LET p == CHOOSE x \in P : \A y \in P : x <= y IN
         (IF table[p] # Null /\ p \in grown /\ table[p].filename # NoName
          THEN <<Envelope(MSG_DISP, FileInfo(table[p].slot_index, table[p].filename))>>
          ELSE <<>>)
         \o SizeEnvelopes(table, grown, P \ {p})

\* the periodic pass of __monitor_loop (slot.py 76-80)
MonitorPass(grown) ==
    /\ Alive("mon")
    /\ LET pr == process_dead_processes(procs)
           table == scan_for_children(pr)
       IN
       /\ procs' = pr
       /\ monitor' = [monitor EXCEPT !.subprocesses = table]
       /\ queue' = PutAll(queue, RecEnvelopes(monitor.subprocesses, table, Slots)
                                 \o SizeEnvelopes(table, grown, Pids))
    /\ UNCHANGED <<today, channels, saved, mgr, slot, lock, hand, traced, display,
                   completed, budget, audit, main>>

\* __kill_process(slot_index): the first child of the Slot is signalled and
\* deleted, and deleting inside the iteration raises RuntimeError, which
\* __monitor_loop does not catch
Victims(slot_index) ==
    {p \in Pids : monitor.subprocesses[p] # Null /\
                  monitor.subprocesses[p].slot_index = slot_index}

\* __monitor_loop takes a MSG_SLOT envelope (slot.py 66-71)
MonitorDeliver ==
    /\ Alive("mon")
    /\ queue # <<>> /\ Owns("mon", Head(queue))
    /\ LET e == Head(queue) IN
       CASE e.response.type = "FileInfo" ->
                /\ monitor' = [monitor EXCEPT
                                   !.filenames[e.response.slot_index] = e.response.filename]
                /\ queue' = Tail(queue)
                /\ UNCHANGED procs
         [] e.response.type = "int" /\ Victims(e.response.value) # {} ->
                LET p == CHOOSE x \in Victims(e.response.value) :
                             \A y \in Victims(e.response.value) : x <= y
                IN
                /\ procs' = [procs EXCEPT ![p] = Terminated(@)]
                /\ monitor' = [monitor EXCEPT !.subprocesses[p] = Null, !.crashed = TRUE]
                /\ queue' = PutAll(Tail(queue), <<Envelope(e.response.value, UNR),
                                                  Envelope(e.response.value, FIN)>>)
         [] OTHER ->
                /\ queue' = Tail(queue)
                /\ UNCHANGED <<monitor, procs>>
    /\ UNCHANGED <<today, channels, saved, mgr, slot, lock, hand, traced, display,
                   completed, budget, audit, main>>

\* __check_keypress reads a digit (display.py 343-350)
KeyDigit(k) ==
    /\ Alive("disp")
    /\ k - 1 \in Slots
    /\ ~ \E i \in 1 .. Len(queue) : queue[i].response.type = "int"
    /\ IF display.slot_columns[k - 1] # Null
       THEN /\ queue' = Put(queue, Envelope(MSG_SLOT, KillRequest(k - 1)))
            /\ display' = [display EXCEPT !.status_bar = <<"Notice", "Halting slot">>]
       ELSE /\ queue' = queue
            /\ display' = [display EXCEPT
                               !.status_bar = <<"Warning", "Halting slot not existing">>]
    /\ UNCHANGED <<today, channels, saved, mgr, slot, lock, hand, traced,
                   completed, rest>>

\* ------------------------------------------------------------------ clock
\* midnight passes
DayTick ==
    /\ today < MaxDay
    /\ today' = today + 1
    /\ UNCHANGED <<channels, saved, mgr, slot, lock, queue, hand, traced, display,
                   completed, rest>>

\* ------------------------------------------------------------------- start
\* Channels.__init__ and the locals of manager() before its loop
InitMgr ==
    [pc |-> "iter", running |-> TRUE, status_value |-> 0, status |-> "None",
     health_checked |-> FALSE, channel_index |-> 0, slot |-> 0,
     current_index |-> 0, ch |-> Null, frames |-> <<>>, j |-> 0]

\* Slot.__init__ and Processor.__init__
InitSlot ==
    [busy |-> FALSE, shutdown |-> FALSE, waiting_channel |-> Null,
     active_channel |-> NoName, channel_event |-> FALSE, sequence |-> -1,
     pc |-> "wait", channel |-> Null, slot_status |-> Null, hooks |-> 0,
     process_lock_status |-> FALSE, permits |-> 0, filename |-> NoName]

\* DisplayController.__init__, once its control loop listens
InitDisplay(n) ==
    [listening |-> TRUE, shutdown_requested |-> FALSE, completion_requested |-> FALSE,
     slot_columns |-> [i \in 0 .. (n - 1) |-> Null], status_bar |-> <<>>,
     health_bar |-> ""]

\* SubprocessMonitor.__init__; a pid absent from __subprocesses is Null, a Slot
\* absent from __filenames has NoName, which the scan treats like ""
InitMonitor(n) ==
    [shutdown |-> FALSE, crashed |-> FALSE, subprocesses |-> [p \in Pids |-> Null],
     filenames |-> [i \in 0 .. (n - 1) |-> NoName]]

\* a roster line as the channels file gives it: a channel never fetched, or one
\* whose last fetch completed on the day of the start
Loaded(name, done) ==
    Channel(name, 5, IF done THEN 1 ELSE None, IF done THEN 1 ELSE None,
            IF done THEN 1 ELSE None, None, "None", "None", "None")

\* main() has done its part and manager() is at its loop
NoMain == [pc |-> "running"]

\* nothing is under observation
NoAudit ==
    [counting |-> FALSE, requeues |-> 0, ordering |-> FALSE,
     latest |-> [nm \in Names |-> Null]]

\* the state after construction with n Slots and the roster of length len whose
\* channels in D completed today
Start(n, len, D) ==
    /\ today = 1
    /\ channels = [i \in 0 .. (len - 1) |-> Loaded(i + 1, (i + 1) \in D)]
    /\ saved = <<>>
    /\ mgr = InitMgr
    /\ slot = [s \in 0 .. (n - 1) |-> InitSlot]
    /\ lock = [owner |-> Free, count |-> 0]
    /\ queue = <<>>
    /\ hand = [c \in Consumers |-> Null]
    /\ display = InitDisplay(n)
    /\ monitor = InitMonitor(n)
    /\ procs = [p \in Pids |-> NoProc]
    /\ completed = [nm \in Names |-> IF nm \in D THEN 1 ELSE None]

\* ------------------------------------------------------- roster loading
\* the history fields of a Channel with the value that stands for None in each
DateFields == {"last_download", "last_complete", "last_attempt", "last_error"}
TextFields == {"last_error_message", "last_resolution", "last_bitrate"}
NoneOf(f) == IF f \in DateFields THEN None ELSE "None"

\* a merge that prefers the later duplicate's value
LaterOf(f, keep, channel) == IF channel[f] # NoneOf(f) THEN channel[f] ELSE keep[f]
\* keep.f if keep.f is not None else channel.f (channels.py 123-134)
FirstOf(f, keep, channel) == IF keep[f] # NoneOf(f) THEN keep[f] ELSE channel[f]

\* the loop of __remove_duplicates from position k of the list chs, with result
\* built so far; seen[name] is the position of name in result
RECURSIVE remove_duplicates_from(_, _, _)
remove_duplicates_from(chs, k, result) ==
    IF k \notin DOMAIN chs THEN result
    ELSE LET channel == chs[k]
             n == Cardinality(DOMAIN result)
             seen == {i \in DOMAIN result : result[i].name = channel.name}
         IN
         IF seen = {}
         THEN remove_duplicates_from(chs, k + 1,
                  [i \in 0 .. n |-> IF i < n THEN result[i] ELSE channel])
         ELSE LET index == CHOOSE i \in seen : TRUE
                  keep == result[index]
                  merged == [f \in DOMAIN keep |->
                                IF f \in DateFields \cup TextFields
                                THEN FirstOf(f, keep, channel) ELSE keep[f]]
              IN remove_duplicates_from(chs, k + 1, [result EXCEPT ![index] = merged])

remove_duplicates(chs) == remove_duplicates_from(chs, 0, <<>>)

\* the lines the channels file can hold: two names, and a history of a date and
\* a text that are None or one of two values
FileLines ==
    {Channel(nm, rk, None, lc, None, None, msg, "None", "None") :
        nm \in 1 .. 2, rk \in {5}, lc \in {None, 1, 2}, msg \in {"None", "a", "b"}}

\* Channels.__init__ has read the file (channels.py 76-85): saved is the file
LoadInit ==
    /\ \E len \in 1 .. MaxLines : \E file \in [0 .. (len - 1) -> FileLines] :
          /\ channels = file
          /\ saved = file
    /\ today = 1
    /\ mgr = [InitMgr EXCEPT !.pc = "load"]
    /\ slot = [s \in 0 .. (NumSlots - 1) |-> InitSlot]
    /\ lock = [owner |-> Free, count |-> 0]
    /\ queue = <<>>
    /\ hand = [c \in Consumers |-> Null]
    /\ display = InitDisplay(NumSlots)
    /\ monitor = InitMonitor(NumSlots)
    /\ procs = [p \in Pids |-> NoProc]
    /\ completed = [nm \in Names |-> None]
    /\ traced = {}
    /\ budget = 0
    /\ audit = NoAudit
    /\ main = NoMain

\* the last statement of Channels.__init__ (channels.py 109)
RemoveDuplicates ==
    /\ mgr.pc = "load"
    /\ channels' = remove_duplicates(channels)
    /\ mgr' = [mgr EXCEPT !.pc = "iter"]
    /\ UNCHANGED <<today, saved, slot, lock, queue, hand, traced, display,
                   completed, rest>>

LoadNext == RemoveDuplicates

LoadSpec == LoadInit /\ [][LoadNext]_vars

\* ---------------------------------------------------------------- startup
\* what Config holds when main() starts: a directory setting is set or not; a
\* file setting is unset, names a file that is missing, or names a file; lines
\* is the number of channels the channels file lists, added says that the file of
\* channels to add (channels_file + "_") exists, permitted that os.makedirs
\* succeeds, number_of_slots is 0 when the setting is missing
Settings ==
    [output_directory : BOOLEAN, temporary_storage : BOOLEAN, permitted : BOOLEAN,
     channels_file : {"unset", "missing", "file"}, lines : 0 .. (NumChannels - 1),
     added : BOOLEAN, channel_prefix : {"unset", "missing", "file"},
     number_of_slots : 0 .. NumSlots]

\* main() up to the construction of Channels (__main__.py 11-29)
MainSetup ==
    /\ main.pc = "main"
    /\ main' = IF ~main.config.output_directory
                THEN [pc |-> "returned", config |-> main.config, returned |-> 2]
                ELSE IF ~main.config.permitted
                THEN [pc |-> "returned", config |-> main.config, returned |-> 1]
                ELSE IF ~main.config.temporary_storage
                THEN [pc |-> "returned", config |-> main.config, returned |-> 2]
                ELSE [main EXCEPT !.pc = "init"]
    /\ UNCHANGED <<today, channels, saved, mgr, slot, lock, queue, hand, traced,
                   display, completed, monitor, procs, budget, audit>>

\* __add_channels (channels.py 153-166) appends the channels of the second file
\* when there is one
AddsChannels(cfg) == cfg.channels_file # "unset" /\ cfg.added

\* the list Channels.__init__ has read before __remove_duplicates (channels.py
\* 76-91): the lines of the channels file, then the added channel
ImportedChannels(cfg) ==
    LET read == IF cfg.channels_file = "file" THEN cfg.lines ELSE 0
        n == IF AddsChannels(cfg) THEN read + 1 ELSE read
    IN [i \in 0 .. (n - 1) |->
           IF i < read THEN Loaded(i + 1, FALSE) ELSE Loaded(NumChannels, FALSE)]

\* __status_value and __status at the end of Channels.__init__ (channels.py 86-108)
ImportStatus(cfg) ==
    LET first == CASE cfg.channels_file = "unset" -> <<2, "Channels file not set">>
                   [] cfg.channels_file = "missing" /\ ~cfg.added ->
                          <<1, "Channels file not found">>
                   [] OTHER -> <<0, "None">>
        second == CASE cfg.channel_prefix = "unset" -> <<2, "Channel prefix file not set">>
                    [] cfg.channel_prefix = "missing" -> <<1, "Channel prefix file not found">>
                    [] OTHER -> first
    IN IF Cardinality(DOMAIN ImportedChannels(cfg)) < 1
       THEN <<3, "No channels imported">> ELSE second

\* Channels.__init__ (channels.py 67-109)
ChannelsInit ==
    /\ main.pc = "init"
    /\ channels' = remove_duplicates(ImportedChannels(main.config))
    /\ saved' = IF AddsChannels(main.config) THEN ImportedChannels(main.config)
                 ELSE saved
    /\ mgr' = [mgr EXCEPT !.status_value = ImportStatus(main.config)[1],
                           !.status = ImportStatus(main.config)[2]]
    /\ main' = [main EXCEPT !.pc = "manager"]
    /\ UNCHANGED <<today, slot, lock, queue, hand, traced, display, completed,
                   monitor, procs, budget, audit>>

\* manager() before its loop (channels.py 218-228) with __create_slots: every
\* Slot's constructor starts its worker thread (slot.py 204-205)
ManagerSetup ==
    /\ main.pc = "manager"
    /\ IF main.config.number_of_slots > 0
       THEN /\ slot' = [s \in 0 .. (main.config.number_of_slots - 1) |-> InitSlot]
            /\ mgr' = [mgr EXCEPT !.pc = "iter", !.running = TRUE]
       ELSE /\ slot' = slot
            /\ mgr' = [mgr EXCEPT !.pc = "iter", !.running = TRUE,
                                   !.status_value = 2,
                                   !.status = "Number of slots not set"]
    /\ main' = [main EXCEPT !.pc = "running"]
    /\ UNCHANGED <<today, channels, saved, lock, queue, hand, traced, display,
                   completed, monitor, procs, budget, audit>>

\* manager() has returned: main() returns channels.status() (__main__.py 31-38)
MainReturn ==
    /\ main.pc = "running" /\ mgr.pc = "done"
    /\ main' = [pc |-> "returned", config |-> main.config,
                returned |-> mgr.status_value]
    /\ UNCHANGED <<today, channels, saved, mgr, slot, lock, queue, hand, traced,
                   display, completed, monitor, procs, budget, audit>>

\* main() starts with any settings; nothing is constructed yet
StartupInit ==
    /\ \E cfg \in Settings :
          /\ main = [pc |-> "main", config |-> cfg]
          /\ display = InitDisplay(cfg.number_of_slots)
          /\ monitor = InitMonitor(cfg.number_of_slots)
    /\ today = 1
    /\ channels = [i \in {} |-> Null]
    /\ saved = <<>>
    /\ mgr = [InitMgr EXCEPT !.pc = "new"]
    /\ slot = [s \in {} |-> InitSlot]
    /\ lock = [owner |-> Free, count |-> 0]
    /\ queue = <<>>
    /\ hand = [c \in Consumers |-> Null]
    /\ procs = [p \in Pids |-> NoProc]
    /\ completed = [nm \in Names |-> None]
    /\ traced = {}
    /\ budget = MaxAssignFew
    /\ audit = NoAudit

\* with at most MaxAssignFew assignments no recursive call of the search returns
StartupNext ==
    \/ MainSetup
    \/ ChannelsInit
    \/ ManagerSetup
    \/ MgrIterate(FALSE, FALSE)
    \/ SearchRecurse \/ SearchReturn \/ SearchRecursionError
    \/ MgrAssign(FALSE)
    \/ \E s \in Slots : WorkerStart(s, "error")
    \/ (main.pc = "running" /\ KeyQuit)
    \/ MgrStop
    \/ MainReturn

StartupSpec == StartupInit /\ [][StartupNext]_vars

\* ----------------------------------------------------------- the scheduler
\* NumSlots Slots over a fresh roster of NumSlots to NumChannels channels; the
\* Fetcher gives each fetch one finalize signal; the roster updates are on the bus
Init ==
    /\ \E len \in NumSlots .. NumChannels : Start(NumSlots, len, {})
    /\ traced = Every({MSG_CHAN})
    /\ budget = MaxAssign
    /\ audit = NoAudit
    /\ main = NoMain

\* the steps of __next_channel that do not raise
Search ==
    \/ SearchWhile
    \/ SearchRecurse
    \/ SearchReturnInner
    \/ SearchReturn

Manager ==
    \/ MgrIterate(FALSE, FALSE)
    \/ Search
    \/ SearchRecursionError
    \/ MgrAssign(FALSE)
    \/ MgrStop

Worker(s) ==
    \/ \E ext \in {"ok", "error"} : WorkerStart(s, ext)
    \/ HookFinished(s)
    \/ HookAcquire(s)
    \/ \E r \in {"truthy", "falsy"} : FetchEnd(s, r)

Next ==
    \/ Manager
    \/ \E s \in Slots : Worker(s)
    \/ CallbackDeliver
    \/ MonitorTake
    \/ MonitorPut

Spec == Init /\ [][Next]_vars

\* one Slot over a fresh roster of NumSlots channels, with an offline window
\* that may elapse at every assignment, the Subprocess Monitor reading the same
\* bus, and the last update published for each name on record
OrderInit ==
    /\ Start(1, NumSlots, {})
    /\ traced = Every({MSG_CHAN})
    /\ budget = MaxAssign
    /\ audit = [NoAudit EXCEPT !.ordering = TRUE]
    /\ main = NoMain

OrderNext ==
    \/ MgrIterate(FALSE, FALSE)
    \/ Search
    \/ \E elapsed \in BOOLEAN : MgrAssign(elapsed)
    \/ \E s \in Slots : Worker(s)
    \/ CallbackDeliver
    \/ MonitorTake
    \/ MonitorPut

OrderSpec == OrderInit /\ [][OrderNext]_vars

\* ------------------------------------------------- the roster's names
\* one Slot over a roster read from a channels file of 1 to MaxLines lines that
\* may repeat a name; the scheduler runs once __remove_duplicates has
RosterInit ==
    /\ \E len \in 1 .. MaxLines :
          \E file \in [0 .. (len - 1) -> {Loaded(nm, FALSE) : nm \in 1 .. 2}] :
              /\ channels = file
              /\ saved = file
    /\ today = 1
    /\ mgr = [InitMgr EXCEPT !.pc = "load"]
    /\ slot = [s \in 0 .. 0 |-> InitSlot]
    /\ lock = [owner |-> Free, count |-> 0]
    /\ queue = <<>>
    /\ hand = [c \in Consumers |-> Null]
    /\ display = InitDisplay(1)
    /\ monitor = InitMonitor(1)
    /\ procs = [p \in Pids |-> NoProc]
    /\ completed = [nm \in Names |-> None]
    /\ traced = Every({MSG_CHAN})
    /\ budget = MaxAssignFew
    /\ audit = NoAudit
    /\ main = NoMain

\* with one Slot no recursive call of the search returns
RosterNext ==
    \/ RemoveDuplicates
    \/ MgrIterate(FALSE, FALSE)
    \/ SearchWhile \/ SearchRecurse \/ SearchReturn
    \/ SearchRecursionError
    \/ MgrAssign(FALSE)
    \/ MgrStop
    \/ \E s \in Slots : Worker(s)
    \/ CallbackDeliver
    \/ MonitorTake
    \/ MonitorPut

RosterSpec == RosterInit /\ [][RosterNext]_vars

\* ------------------------------------------------- rank and cursor
\* one Slot over a fresh roster of NumChannels or MaxRoster channels, with the
\* cursor at any position of it (as it is after that many assignments); every
\* extraction fails, and the offline window may elapse at an assignment; the
\* roster updates of the short roster are on the bus
RankInit ==
    /\ \E len \in {NumChannels, MaxRoster} : \E p \in 0 .. (len - 1) :
          /\ channels = [i \in 0 .. (len - 1) |-> Loaded(i + 1, FALSE)]
          /\ mgr = [InitMgr EXCEPT !.channel_index = p]
          /\ traced = IF len = NumChannels THEN {<<MSG_CHAN, "Channel">>} ELSE {}
    /\ today = 1
    /\ saved = <<>>
    /\ slot = [s \in 0 .. 0 |-> InitSlot]
    /\ lock = [owner |-> Free, count |-> 0]
    /\ queue = <<>>
    /\ hand = [c \in Consumers |-> Null]
    /\ display = InitDisplay(1)
    /\ monitor = InitMonitor(1)
    /\ procs = [p \in Pids |-> NoProc]
    /\ completed = [nm \in Names |-> None]
    /\ budget = MaxAssignFew
    /\ audit = NoAudit
    /\ main = NoMain

RankNext ==
    \/ MgrIterate(FALSE, FALSE)
    \/ SearchReturn
    \/ \E elapsed \in BOOLEAN : MgrAssign(elapsed)
    \/ \E s \in Slots : WorkerStart(s, "error")
    \/ CallbackDeliver

RankSpec == RankInit /\ [][RankNext]_vars

\* ------------------------------------------------- the first iteration
\* two free Slots over the roster A, B, C (names 1, 2, 3) with A completed on the
\* day of the start; the run makes the two assignments of its first iteration,
\* and the offline window may elapse at either
SkipInit ==
    /\ Start(2, 3, {1})
    /\ traced = Every({MSG_CHAN})
    /\ budget = 2
    /\ audit = NoAudit
    /\ main = NoMain

SkipNext ==
    \/ MgrIterate(FALSE, FALSE)
    \/ Search
    \/ SearchRecursionError
    \/ \E elapsed \in BOOLEAN : MgrAssign(elapsed)
    \/ MgrStop
    \/ \E s \in Slots : Worker(s)
    \/ CallbackDeliver

SkipSpec == SkipInit /\ [][SkipNext]_vars

\* ------------------------------------------------- the ways the loop ends
\* the scheduler with the operator's quit key, interrupts and exceptions in the
\* loop; the workers take channels whose extraction fails, so no channel
\* completes and the while loop of __next_channel never turns
StopInit ==
    /\ \E len \in NumSlots .. NumChannels : Start(NumSlots, len, {})
    /\ traced = {}
    /\ budget = MaxAssign
    /\ audit = NoAudit
    /\ main = NoMain

StopNext ==
    \/ MgrIterate(FALSE, FALSE)
    \/ SearchRecurse \/ SearchReturnInner \/ SearchReturn
    \/ SearchRecursionError
    \/ MgrAssign(FALSE)
    \/ MgrRaise
    \/ MgrInterrupt
    \/ MgrHandled
    \/ MgrInterruptAgain
    \/ MgrStop
    \/ KeyQuit
    \/ \E s \in Slots : WorkerStart(s, "error") \/ WorkerExit(s)

StopSpec == StopInit /\ [][StopNext]_vars

\* ------------------------------------------------- extraction after a fetch
\* the Slots of Spec with the Fetcher's log naming its destination file, and
\* extractions that fail with or without a logged error
ExtractWorker(s) ==
    \/ \E ext \in {"ok", "error", "silent"} : WorkerStart(s, ext)
    \/ FetchDestination(s)
    \/ HookFinished(s)
    \/ HookAcquire(s)
    \/ \E r \in {"truthy", "falsy"} : FetchEnd(s, r)

ExtractNext ==
    \/ MgrIterate(FALSE, FALSE)
    \/ Search
    \/ MgrAssign(FALSE)
    \/ \E s \in Slots : ExtractWorker(s)
    \/ CallbackDeliver

ExtractSpec == Init /\ [][ExtractNext]_vars

\* ------------------------------------------------- the monitor's output
\* one Slot and one fetch with a child process whose file may grow, which the
\* monitor reports when no file report is on the bus; every envelope the
\* Subprocess Monitor reads or could publish is on the bus
WatchInit ==
    /\ Start(1, 2, {})
    /\ traced = ({MSG_SLOT, MSG_CHAN, MSG_DISP} \X {"FileInfo"})
                \cup {<<MSG_SLOT, "int">>, <<MSG_CHAN, "Channel">>}
                \cup (Slots \X {"RECORDING", "UNRESPONSIVE", "FINISHED"})
    /\ budget = MaxAssignBus
    /\ audit = NoAudit
    /\ main = NoMain

WatchNext ==
    \/ MgrIterate(FALSE, FALSE)
    \/ SearchReturn
    \/ MgrAssign(FALSE)
    \/ \E s \in Slots : WorkerStart(s, "ok") \/ FetchDestination(s) \/ Spawn(s, FALSE)
    \/ \E s \in Slots : WorkerMonitor(s)
    \/ \E s \in Slots : HookFinished(s) \/ HookAcquire(s) \/ FetchEnd(s, "truthy")
    \/ \E p \in Pids : ChildExit(p)
    \/ \E grown \in SUBSET Pids :
          /\ grown # {} => \A k \in 1 .. Len(queue) : queue[k].response.type # "FileInfo"
          /\ MonitorPass(grown)
    \/ MonitorDeliver
    \/ CallbackDeliver
    \/ DisplayDeliver
    \/ \E k \in 1 .. NumSlots : KeyDigit(k)

WatchSpec == WatchInit /\ [][WatchNext]_vars

\* ------------------------------------------------- an interrupt mid-fetch
\* one Slot over a fresh roster of two channels; SIGINT may reach the main
\* thread anywhere in the try of manager()'s loop, also while the Slot fetches
DrainInit ==
    /\ Start(1, 2, {})
    /\ traced = {}
    /\ budget = MaxAssignFew
    /\ audit = NoAudit
    /\ main = NoMain

\* with one Slot the search neither recurses nor skips
DrainNext ==
    \/ MgrIterate(FALSE, FALSE)
    \/ SearchReturn
    \/ MgrAssign(FALSE)
    \/ MgrInterrupt
    \/ MgrHandled
    \/ MgrStop
    \/ \E s \in Slots : Worker(s) \/ WorkerExit(s)

DrainSpec == DrainInit /\ [][DrainNext]_vars

\* ------------------------------------------------- one envelope on the bus
\* one Slot over a fresh roster of 1 to NumChannels channels, whose single
\* failing assignment publishes one channel-state envelope; the three readers of
\* the bus run, and the put-backs are counted
HopInit ==
    /\ \E len \in 1 .. NumChannels : Start(1, len, {})
    /\ traced = {<<MSG_CHAN, "Channel">>}
    /\ budget = 1
    /\ audit = [NoAudit EXCEPT !.counting = TRUE]
    /\ main = NoMain

HopNext ==
    \/ MgrIterate(FALSE, FALSE)
    \/ SearchReturn
    \/ MgrAssign(FALSE)
    \/ \E s \in Slots : \E ext \in {"error", "silent"} : WorkerStart(s, ext)
    \/ CallbackDeliver
    \/ MonitorTake \/ MonitorPut
    \/ DisplayTake \/ DisplayPut

HopSpec == HopInit /\ [][HopNext]_vars

\* ------------------------------------------------- one Slot, slow updates
\* one Slot over a fresh roster of NumChannels channels, with an offline window
\* that may elapse at every assignment
RaceInit ==
    /\ Start(1, NumChannels, {})
    /\ traced = Every({MSG_CHAN})
    /\ budget = MaxAssignRace
    /\ audit = NoAudit
    /\ main = NoMain

RaceNext ==
    \/ MgrIterate(FALSE, FALSE)
    \/ Search
    \/ \E elapsed \in BOOLEAN : MgrAssign(elapsed)
    \/ \E s \in Slots : Worker(s)
    \/ CallbackDeliver

RaceSpec == RaceInit /\ [][RaceNext]_vars

\* ------------------------------------------------------ the search alone
\* the scheduler alone, within one calendar day, with up to NumSlots + 1 Slots
\* over every roster of 2 to NumChannels channels of which any may have
\* completed today (so rosters smaller than the pool are among them); the manager
\* thread is always scheduled again and the offline window may elapse at any
\* assignment
SearchInit ==
    /\ \E n \in 1 .. (NumSlots + 1) : \E len \in 2 .. NumChannels :
           \E D \in SUBSET (1 .. len) : Start(n, len, D)
    /\ traced = {}
    /\ budget = MaxAssign
    /\ audit = NoAudit
    /\ main = NoMain

SearchNext ==
    \/ MgrIterate(FALSE, FALSE)
    \/ Search
    \/ SearchRecursionError
    \/ \E elapsed \in BOOLEAN : MgrAssign(elapsed)
    \/ MgrStop

SearchSpec == SearchInit /\ [][SearchNext]_vars /\ WF_vars(SearchNext)

\* ---------------------------------------------------------------- the gate
\* the pool fetching with a Fetcher that raises the finalize signal up to
\* MaxHooks times in a fetch, for fetches of any length, and ends in any way
GateInit ==
    /\ Start(NumSlots, NumChannels, {})
    /\ traced = {}
    /\ budget = MaxAssign
    /\ audit = NoAudit
    /\ main = NoMain

GateWorker(s) ==
    \/ \E ext \in {"ok", "error"} : WorkerStart(s, ext)
    \/ HookFinished(s)
    \/ HookAcquire(s)
    \/ HookFinishedShort(s)
    \/ \E r \in {"truthy", "falsy", "raise"} : FetchEnd(s, r)

GateNext ==
    \/ MgrIterate(FALSE, FALSE)
    \/ Search
    \/ MgrAssign(FALSE)
    \/ \E s \in Slots : GateWorker(s)

GateSpec == GateInit /\ [][GateNext]_vars

\* the gate with its threads scheduled: the manager thread always runs again and
\* a worker whose acquire() can return does return; the Fetcher owes no step (a
\* fetch may hang)
GateLiveSpec ==
    /\ GateInit /\ [][GateNext]_vars
    /\ WF_vars(MgrIterate(FALSE, FALSE) \/ Search \/ MgrAssign(FALSE))
    /\ \A s \in 0 .. (NumSlots - 1) : WF_vars(HookAcquire(s))

\* ------------------------------------------------------------- the bus
\* one Slot over a roster of two channels with every destination on the bus and
\* the three draining threads running; extraction may fail
BusInit ==
    /\ Start(1, 2, {})
    /\ traced = Every({MSG_DISP, MSG_SLOT, MSG_CHAN} \cup Slots)
    /\ budget = MaxAssignBus
    /\ audit = NoAudit
    /\ main = NoMain

BusNext ==
    \/ MgrIterate(FALSE, FALSE)
    \/ SearchReturn
    \/ MgrAssign(FALSE)
    \/ \E s \in Slots : WorkerStart(s, "error")
    \/ \E s \in Slots : WorkerMonitor(s)
    \/ CallbackDeliver \/ CallbackTake \/ CallbackPut
    \/ MonitorDeliver \/ MonitorTake \/ MonitorPut
    \/ DisplayDeliver \/ DisplayTake \/ DisplayPut

BusSpec == BusInit /\ [][BusNext]_vars

\* --------------------------------------------------------- the status column
\* one Slot whose CurrentSlot updates are on the bus, drained by the display
\* while the monitor takes and re-puts what is not its own
StatusInit ==
    /\ Start(1, 2, {})
    /\ traced = Slots \X {"CurrentSlot"}
    /\ budget = MaxAssignFew
    /\ audit = NoAudit
    /\ main = NoMain

\* with one Slot no recursive call of the search returns
StatusNext ==
    \/ MgrIterate(FALSE, FALSE)
    \/ SearchWhile \/ SearchRecurse \/ SearchReturn \/ SearchRecursionError
    \/ MgrAssign(FALSE)
    \/ MgrStop
    \/ \E s \in Slots : Worker(s)
    \/ MonitorTake \/ MonitorPut
    \/ DisplayDeliver

StatusSpec == StatusInit /\ [][StatusNext]_vars

\* ------------------------------------------------------------ the children
\* the pool fetching with child processes that may hang: the Slots' file names,
\* the halt requests and the signals on the Slots' status streams are on the bus
ChildInit ==
    /\ Start(NumSlots, NumChannels, {})
    /\ traced = Every({MSG_SLOT}) \cup (Slots \X {"RECORDING", "UNRESPONSIVE", "FINISHED"})
    /\ budget = MaxAssignFew
    /\ audit = NoAudit
    /\ main = NoMain

\* with as many assignments as Slots the search returns its first candidate;
\* one child process runs at a time
ChildNext ==
    \/ MgrIterate(FALSE, FALSE)
    \/ SearchReturn
    \/ MgrAssign(FALSE)
    \/ \E s \in Slots : WorkerStart(s, "ok")
    \/ \E s \in Slots : FetchDestination(s)
    \/ \E s \in Slots : \E stubborn \in BOOLEAN :
          (\A p \in Pids : procs[p] = NoProc) /\ Spawn(s, stubborn)
    \/ \E s \in Slots : WorkerMonitor(s)
    \/ \E s \in Slots : FetchEnd(s, "truthy")
    \/ \E p \in Pids : ChildExit(p)
    \/ \E p \in Pids : Overdue(p)
    \/ MonitorPass({})
    \/ MonitorDeliver
    \/ DisplayDeliver
    \/ \E k \in 1 .. NumSlots : KeyDigit(k)

ChildSpec == ChildInit /\ [][ChildNext]_vars

\* ------------------------------------------------- a fetch that completes
\* one Slot whose fetch starts a child, reaches its finalize signal and
\* completes, with the monitor's passes; the Slot's file name and its FINISHED
\* are on the bus
ReapInit ==
    /\ Start(1, 2, {})
    /\ traced = {<<MSG_SLOT, "FileInfo">>} \cup (Slots \X {"RECORDING", "FINISHED"})
    /\ budget = MaxAssignFew
    /\ audit = NoAudit
    /\ main = NoMain

ReapNext ==
    \/ MgrIterate(FALSE, FALSE)
    \/ SearchWhile \/ SearchReturn
    \/ MgrAssign(FALSE)
    \/ \E s \in Slots : WorkerStart(s, "ok") \/ FetchDestination(s) \/ Spawn(s, FALSE)
    \/ \E s \in Slots : WorkerMonitor(s)
    \/ \E s \in Slots : HookFinished(s) \/ HookAcquire(s) \/ FetchEnd(s, "truthy")
    \/ \E p \in Pids : ChildExit(p)
    \/ MonitorPass({})
    \/ MonitorDeliver
    \/ DisplayDeliver

ReapSpec == ReapInit /\ [][ReapNext]_vars

\* ------------------------------------------------------------ the outcome
\* one Slot over a roster of two channels, for every result of extraction and
\* every way a fetch can end, with the roster updates and the Slot's status
\* stream on the bus; with one Slot no recursive call of the search returns
OutcomeInit ==
    /\ Start(1, 2, {})
    /\ traced = Every({MSG_CHAN}) \cup (Slots \X {"CurrentChannel", "CurrentSlot", "FINISHED"})
    /\ budget = MaxAssignFew
    /\ audit = NoAudit
    /\ main = NoMain

OutcomeNext ==
    \/ MgrIterate(FALSE, FALSE)
    \/ SearchWhile \/ SearchRecurse \/ SearchReturn \/ SearchRecursionError
    \/ MgrAssign(FALSE)
    \/ MgrStop
    \/ \E s \in Slots : GateWorker(s)
    \/ \E s \in Slots : WorkerWaitElse(s) \/ WorkerClear(s) \/ WorkerExit(s)
    \/ CallbackDeliver
    \/ DisplayDeliver

OutcomeSpec == OutcomeInit /\ [][OutcomeNext]_vars

\* ------------------------------------------------------ the quit key
\* pools of one to three Slots over rosters of which any part completed today;
\* the operator may press q at any moment; the date does not change and the
\* manager thread keeps being scheduled
QuitInit ==
    /\ \E n \in 1 .. (NumSlots + 1) : \E len \in 2 .. NumChannels :
           \E D \in SUBSET (1 .. len) : Start(n, len, D)
    /\ traced = {}
    /\ budget = MaxAssign
    /\ audit = NoAudit
    /\ main = NoMain

QuitNext ==
    \/ Manager
    \/ KeyQuit
    \/ \E s \in Slots : WorkerStart(s, "error")

QuitSpec == QuitInit /\ [][QuitNext]_vars /\ WF_vars(Manager)

\* ------------------------------------------------ the end of an assignment
\* the Slots over a fresh roster, with extraction and fetch that return or
\* raise; the bus keeps the status bar messages
FreeInit ==
    /\ Start(NumSlots, NumChannels, {})
    /\ traced = {<<MSG_DISP, "StatusBarMessage">>}
    /\ budget = MaxAssign
    /\ audit = NoAudit
    /\ main = NoMain

FreeNext ==
    \/ MgrIterate(FALSE, FALSE)
    \/ SearchWhile \/ SearchRecurse \/ SearchReturn \/ SearchReturnInner
    \/ SearchRecursionError
    \/ MgrAssign(FALSE)
    \/ \E s \in Slots : GateWorker(s)
    \/ \E s \in Slots : WorkerStart(s, "silent") \/ WorkerStart(s, "raise")

FreeSpec == FreeInit /\ [][FreeNext]_vars

\* ------------------------------------------- the assignment-ready signal
\* the Slots run until the budget of assignments is spent, no operator and no
\* stop; every worker thread keeps being scheduled
WakeInit ==
    /\ Start(1, 2, {})
    /\ traced = Every({MSG_CHAN})
    /\ budget = MaxAssignFew
    /\ audit = NoAudit
    /\ main = NoMain

WakeNext ==
    \/ MgrIterate(FALSE, FALSE)
    \/ SearchWhile \/ SearchRecurse \/ SearchReturn \/ SearchRecursionError
    \/ MgrAssign(FALSE)
    \/ \E s \in Slots : GateWorker(s)
    \/ \E s \in Slots : WorkerWaitElse(s) \/ WorkerClear(s)
    \/ CallbackDeliver

WakeSpec ==
    /\ WakeInit /\ [][WakeNext]_vars
    /\ \A s \in 0 .. (NumSlots - 1) :
          WF_vars(s \in Slots /\ (GateWorker(s) \/ WorkerWaitElse(s) \/ WorkerClear(s)))

\* ================================================================ claims
\* C1: no two distinct busy Slots hold an assignment to the same channel name
NoDuplicateAssignment ==
    \A s, t \in Slots :
        (s # t /\ is_busy(s) /\ is_busy(t)) => get_name(s) # get_name(t)

\* a Slot has been given its second channel while another Slot is busy
ReassignedBesideBusy ==
    \E s, t \in Slots :
        /\ s # t /\ is_busy(s) /\ is_busy(t)
        /\ slot[s].sequence >= 0 /\ slot[s].waiting_channel # Null
        /\ get_name(s) # get_name(t)

\* a channel that is eligible: its last fetch did not complete today and no Slot
\* holds its name
Eligible(i) ==
    /\ completed[channels[i].name] # today
    /\ \A s \in Slots : ~check_name(s, channels[i].name)

\* C2: a channel whose fetch completed today is never returned by the search and
\* handed to a Slot while another eligible channel exists
CompletedNeverSelected ==
    (/\ mgr.pc = "picked"
     /\ mgr.running /\ ~display.shutdown_requested /\ ~is_busy(mgr.slot)
     /\ completed[Deref(mgr.ch).name] = today)
    => ~ \E i \in Positions :
            channels[i].name # Deref(mgr.ch).name /\ Eligible(i)

\* a call of __next_channel is running
InSearch == mgr.pc \in {"while", "for"}

SignalledUntracked ==
    \A p \in Pids :
        (procs[p].state # "none" /\ procs[p].signals # <<>>)
            => monitor.subprocesses[p] = Null

\* this step publishes UNRESPONSIVE and then FINISHED on the stream of Slot i
PublishesUnresponsive(i) ==
    \E j, k \in 1 .. Len(queue') :
        /\ j >= Len(queue) /\ j < k
        /\ queue'[j] = Envelope(i, UNR)
        /\ queue'[k] = Envelope(i, FIN)

\* C5: a step in which the monitor signals a tracked child attributed to a Slot,
\* index 0 included, publishes UNRESPONSIVE and then FINISHED on that Slot's stream
SignalPublishes ==
    [][\A p \in Pids :
          (/\ procs[p].state = "alive"
           /\ procs'[p].signals # procs[p].signals
           /\ monitor.subprocesses[p] # Null
           /\ monitor.subprocesses[p].slot_index \in Slots)
          => PublishesUnresponsive(monitor.subprocesses[p].slot_index)]_vars

\* the copies of envelope e in queue q and in the hands h of the consumers
InFlight(q, h, e) ==
    Cardinality({i \in 1 .. Len(q) : q[i] = e})
        + Cardinality({c \in Consumers : h[c] = e})
Envelopes ==
    {queue[i] : i \in 1 .. Len(queue)} \cup {hand[c] : c \in {d \in Consumers : hand[d] # Null}}

\* C6: a copy of an envelope leaves the bus only from the head of the queue into
\* the consumer of its destination; an envelope a consumer took and does not
\* handle goes back with the same destination and payload
BusNeverLoses ==
    [][\A e \in Envelopes :
          InFlight(queue', hand', e) < InFlight(queue, hand, e)
          => /\ queue # <<>> /\ e = Head(queue)
             /\ hand' = hand
             /\ \E c \in Consumers : Alive(c) /\ Owns(c, e)]_vars

\* an envelope has gone back to the queue behind one published after it, while
\* two consumers each hold an envelope that is not their own
RequeuedBehind ==
    /\ \E i, j \in 1 .. Len(queue) :
          /\ i < j
          /\ queue[i].response.type = "StatusBarMessage"
          /\ queue[j].response.type = "Channel"
    /\ \E c, d \in Consumers : c # d /\ hand[c] # Null /\ hand[d] # Null

\* the envelopes of payload type t for Slot s that are on the bus
OnStream(s, t) ==
    Cardinality({i \in 1 .. Len(queue) :
                    queue[i].receiver = s /\ queue[i].response.type = t})
        + Cardinality({c \in Consumers :
                          hand[c] # Null /\ hand[c].receiver = s /\ hand[c].response.type = t})

\* C7: a worker publishes the final CurrentSlot of a fetch and then FINISHED on its
\* stream, so the display has taken every final CurrentSlot whose FINISHED it has
\* taken: no more CurrentSlot than FINISHED envelopes of a Slot are on the bus
StatusBeforeFinished ==
    \A s \in Slots : OnStream(s, "CurrentSlot") <= OnStream(s, "FINISHED")

\* the display's column of Slot s, as __control_loop has it before __process_response
Column(s) ==
    IF display.slot_columns[s] = Null THEN NewSlotStatus ELSE display.slot_columns[s]

\* this step is the display taking a CurrentSlot from the head of the queue
StatusDelivery ==
    /\ Alive("disp") /\ queue # <<>>
    /\ Head(queue).receiver \in Slots /\ Head(queue).response.type = "CurrentSlot"
    /\ queue' = Tail(queue) /\ hand' = hand

\* the column of Slot s holds a CurrentSlot the display accepted
HasAccepted(s) ==
    /\ display.slot_columns[s] # Null
    /\ (display.slot_columns[s].sequence >= 0 \/ display.slot_columns[s].is_downloading)

\* C8 as stated: a CurrentSlot whose sequence is at most the last accepted one
\* leaves the column as it is
DiscardsNotNewer ==
    [][(/\ StatusDelivery
        /\ HasAccepted(Head(queue).receiver)
        /\ Head(queue).response.status.sequence <= Column(Head(queue).receiver).sequence)
       => display'.slot_columns[Head(queue).receiver]
              = display.slot_columns[Head(queue).receiver]]_vars

\* C8: a CurrentSlot whose sequence is below the column's leaves the column as
\* it is; one whose sequence is equal or greater is applied
DiscardsOlder ==
    [][StatusDelivery =>
          LET s == Head(queue).receiver
              st == Head(queue).response.status
              col == display'.slot_columns[s]
          IN IF st.sequence < Column(s).sequence
             THEN col = Column(s)
             ELSE /\ col.sequence = st.sequence
                  /\ col.is_downloading = st.is_downloading
                  /\ col.channel[1] = st.channel_name]_vars

\* the display is about to take a CurrentSlot older than the one in its column
OlderAtHead ==
    /\ Alive("disp") /\ queue # <<>>
    /\ Head(queue).receiver \in Slots /\ Head(queue).response.type = "CurrentSlot"
    /\ HasAccepted(Head(queue).receiver)
    /\ Head(queue).response.status.sequence < Column(Head(queue).receiver).sequence

\* the worker of Slot s is inside Processor.download
InDownload(s) == slot[s].pc \in {"fetching", "acquire"}

\* C9: at most one Slot is between acquiring the lock in the hook and releasing it
GateMutualExclusion ==
    \A s, t \in Slots : (slot[s].permits > 0 /\ slot[t].permits > 0) => s = t

\* one Slot is in its finalize phase while another waits in acquire
GateContended ==
    \E s, t \in Slots :
        /\ s # t
        /\ slot[s].permits > 0 /\ slot[s].pc = "fetching"
        /\ slot[t].pc = "acquire"

\* C11: a worker that calls acquire() in the hook gets the lock or gives up
AcquireEnds ==
    \A s \in 0 .. (NumSlots - 1) : (slot[s].pc = "acquire") ~> (slot[s].pc # "acquire")

\* the envelopes this step has put on the bus are at these positions of queue'
Fresh == (Len(queue) + 1) .. Len(queue')

\* in this step the Fetcher's call of Slot s ends on the finalize signal of a fetch
\* shorter than the minimum duration
Rejection(s) ==
    /\ slot[s].pc = "fetching" /\ slot'[s].pc = "wait"
    /\ \E i \in Fresh : queue'[i] = Envelope(s, CurrentChannel("finished", "progress"))

\* C12: a rejected fetch publishes a roster update that carries the rejection
\* text as last_error_message and the last_complete the channel had before
RejectionRecorded ==
    [][\A s \in Slots :
          Rejection(s)
          => \E i \in Fresh :
                /\ queue'[i].receiver = MSG_CHAN
                /\ queue'[i].response.channel.last_error_message = "Duration too short"
                /\ queue'[i].response.channel.last_complete
                       = Deref(slot[s].channel).last_complete]_vars

\* in this step Slot s becomes free
Freed(s) == slot[s].busy /\ ~slot'[s].busy

\* C13: the step that frees a Slot has published the roster update, then the
\* final CurrentSlot, then FINISHED
OutcomePublished ==
    [][\A s \in Slots :
          Freed(s)
          => \E i, j, k \in Fresh :
                /\ i < j /\ j < k
                /\ queue'[i].receiver = MSG_CHAN /\ queue'[i].response.type = "Channel"
                /\ queue'[j].receiver = s /\ queue'[j].response.type = "CurrentSlot"
                /\ queue'[k] = Envelope(s, FIN)]_vars

\* the channel object the worker of Slot s works on, or is about to take
Taken(s) == IF slot[s].channel # Null THEN slot[s].channel ELSE slot[s].waiting_channel

\* C14: the step that ends an assignment on a roster entry has written either
\* the completion fields, leaving the error fields, or last_error, leaving
\* last_complete
OneOutcomeGroup ==
    [][\A s \in Slots :
          (Freed(s) /\ Taken(s).kind = "roster")
          => LET old == channels[Taken(s).idx]
                 new == channels'[Taken(s).idx]
             IN \/ /\ new.last_complete = get_time /\ new.last_resolution = "res"
                   /\ new.last_error = old.last_error
                   /\ new.last_error_message = old.last_error_message
                \/ /\ new.last_error = get_time
                   /\ new.last_complete = old.last_complete]_vars

\* Slot s holds an assignment: a channel handed over and not yet taken, or a
\* fetch in progress
HoldsAssignment(s) ==
    slot[s].waiting_channel # Null \/ slot[s].pc \in {"fetching", "acquire"}

\* C18: a Slot that holds an assignment is busy
BusyWhileAssigned == \A s \in Slots : HoldsAssignment(s) => slot[s].busy

\* C35: a channel handed to a Slot by process() is eventually taken by the
\* Slot's worker, whatever the interleaving of process() with the worker's
\* timed wait on the assignment-ready signal
HandedIsTaken ==
    \A s \in 0 .. (NumSlots - 1) :
        (s \in Slots /\ slot[s].waiting_channel # Null)
            ~> (s \in Slots /\ slot[s].waiting_channel = Null)

\* in this step the Scheduler calls process() on Slot s
Handover(s) == budget' < budget /\ mgr.slot = s

\* C36: the Scheduler calls process() only on a Slot that is not busy and holds
\* no waiting channel, and a waiting channel stays the same object's channel
\* until the worker takes it
HandedOnlyToFree ==
    [][\A s \in Slots :
          /\ Handover(s)
             => /\ ~slot[s].busy
                /\ slot[s].waiting_channel = Null
                /\ slot[s].pc \notin {"fetching", "acquire"}
          /\ (slot[s].waiting_channel # Null /\ slot'[s].waiting_channel # Null)
             => /\ ~Handover(s)
                /\ Deref(slot'[s].waiting_channel).name
                   = Deref(slot[s].waiting_channel).name]_vars

\* a Slot waits with its second channel, handed over after its first fetch has
\* ended, while the Scheduler has passed over a Slot that is still fetching
SecondHandover ==
    \E s, t \in Slots :
        /\ s # t
        /\ slot[s].sequence >= 0 /\ slot[s].waiting_channel # Null
        /\ slot[s].channel_event /\ slot[s].pc = "wait"
        /\ slot[t].pc = "fetching" /\ slot[t].sequence = 0
        /\ mgr.pc = "iter"

AllDelivered(s) ==
    /\ \A k \in 1 .. Len(queue) : queue[k].receiver # s
    /\ \A c \in Consumers : hand[c] # Null => hand[c].receiver # s

\* C40: when a Slot has finished an assignment whose fetch completed, and the
\* Display has taken every envelope of the Slot's stream, the Slot's column is
\* not downloading
FinishedShowsIdle ==
    \A s \in Slots :
        (/\ slot[s].sequence >= 0 /\ ~slot[s].busy /\ slot[s].pc = "wait"
         /\ completed[slot[s].active_channel] = get_time
         /\ AllDelivered(s)
         /\ display.slot_columns[s] # Null)
        => ~display.slot_columns[s].is_downloading

\* in this step the worker of Slot s leaves the try of an assignment it has
\* taken: extraction or fetch has returned or raised
CallsEnd(s) ==
    \/ slot[s].pc = "fetching" /\ slot'[s].pc \notin {"fetching", "acquire"}
    \/ /\ slot[s].pc = "wait" /\ slot[s].waiting_channel # Null
       /\ slot'[s].waiting_channel = Null /\ slot'[s].pc # "fetching"

AssignedNotTaken ==
    \E s \in Slots :
        /\ slot[s].sequence >= 0 /\ slot[s].busy
        /\ slot[s].waiting_channel # Null /\ ~slot[s].channel_event

\* C19: when extraction fails the worker starts no fetch, publishes the roster
\* update with last_error and last_error_message of the failure and leaves the
\* Slot free, and the step changes nothing of the Scheduler or of another Slot
ExtractionFailureRecorded ==
    [][\A s \in Slots :
          (\E ext \in {"error", "silent"} : WorkerStart(s, ext))
          => /\ slot'[s].pc = "wait" /\ ~slot'[s].busy
             /\ \E i \in Fresh :
                   /\ queue'[i].receiver = MSG_CHAN
                   /\ queue'[i].response.channel.name = Deref(slot[s].waiting_channel).name
                   /\ queue'[i].response.channel.last_error = get_time
                   /\ queue'[i].response.channel.last_error_message
                          \in {"extract error", ""}
             /\ mgr' = mgr
             /\ \A t \in Slots \ {s} : slot'[t] = slot[t]]_vars

\* the file lines of a name, and the first of them whose field f is not None
LinesOf(nm) == {k \in DOMAIN saved : saved[k].name = nm}
Valued(nm, f) == {k \in LinesOf(nm) : saved[k][f] # NoneOf(f)}
FirstValue(nm, f) ==
    IF Valued(nm, f) = {} THEN NoneOf(f)
    ELSE saved[CHOOSE k \in Valued(nm, f) : \A m \in Valued(nm, f) : k <= m][f]

\* C15: after __remove_duplicates the roster has exactly one record for every
\* name of the file and no other, and each history field of a record is the
\* first value that is not None among the file's lines of that name
DuplicatesMerged ==
    mgr.pc # "load"
    => /\ \A k \in DOMAIN saved :
             Cardinality({i \in Positions : channels[i].name = saved[k].name}) = 1
       /\ \A i \in Positions :
             /\ LinesOf(channels[i].name) # {}
             /\ \A f \in DateFields \cup TextFields :
                   channels[i][f] = FirstValue(channels[i].name, f)

\* a file of three lines of one name, the first without a value and the later
\* two with different values, has been merged
ThreeMerged ==
    /\ mgr.pc # "load" /\ len_channels = 1
    /\ Cardinality(DOMAIN saved) = 3
    /\ saved[0].last_complete = None /\ saved[1].last_complete = 1
    /\ saved[2].last_complete = 2
    /\ saved[0].last_error_message = "None" /\ saved[1].last_error_message = "None"
    /\ saved[2].last_error_message = "b"

\* the first pass of manager()'s for loop over the Slots has ended
FirstIterationOver == mgr.health_checked /\ mgr.pc \in {"iter", "done"}

\* C16: from the roster A, B, C with A completed today and two free Slots, the
\* first iteration hands B to Slot 0 and C to Slot 1 and hands A to no Slot
FirstIterationSkipsCompleted ==
    /\ slot[0].active_channel \in {NoName, 2}
    /\ slot[1].active_channel \in {NoName, 3}
    /\ channels[0].rank = Loaded(1, TRUE).rank
    /\ FirstIterationOver => slot[0].active_channel = 2 /\ slot[1].active_channel = 3

\* the first iteration has ended with both of its assignments made
BothAssigned == FirstIterationOver /\ budget = 0 /\ \A s \in Slots : slot[s].sequence = -1

\* in this step the main thread leaves the loop of manager() for good
LoopLeft == mgr.pc \notin {"done", "aborted"} /\ mgr'.pc \in {"done", "aborted"}

\* C17: the step in which the Scheduler leaves its loop asks every Slot to shut
\* down, stops the monitor and persists the roster
StopRunsInFull ==
    [][LoopLeft
       => /\ \A s \in Slots : slot'[s].shutdown
          /\ monitor'.shutdown
          /\ saved' = channels']_vars

\* the fetch of the channel Slot i holds has completed, so its worker has
\* published the final CurrentSlot and FINISHED, and FINISHED has been taken
\* off the bus
ReportedFinished(i) ==
    /\ ~slot[i].busy /\ slot[i].active_channel # NoName
    /\ completed[slot[i].active_channel] = get_time
    /\ \A k \in 1 .. Len(queue) : queue[k] # Envelope(i, FIN)

\* C20: once the finished report of a Slot has been processed, its child has
\* exited and a pass of the monitor has nothing left to change, the table holds
\* no record of that child attributed to the Slot
FinishedUntracked ==
    \A i \in Slots : \A p \in Pids :
        (/\ ReportedFinished(i)
         /\ procs[p].state = "dead"
         /\ process_dead_processes(procs) = procs
         /\ scan_for_children(procs) = monitor.subprocesses)
        => ~(/\ monitor.subprocesses[p] # Null
             /\ monitor.subprocesses[p].slot_index = i
             /\ monitor.subprocesses[p].filename = slot[i].active_channel)

\* C21: a roster entry's last_attempt, last_download, last_complete and
\* last_error change only in a step in which the Scheduler hands the channel
\* over or in which __slot_callback takes a channel-state envelope off the bus
RosterWrittenByUpdateOnly ==
    [][\A i \in Positions :
          (\E f \in DateFields : channels'[i][f] # channels[i][f])
          => \/ budget' < budget
             \/ /\ queue # <<>> /\ Head(queue).receiver = MSG_CHAN
                /\ queue' = Tail(queue)]_vars

\* the channel-state updates for name nm on the bus q and in the hands h
UpdatesFor(q, h, nm) ==
    Cardinality({k \in 1 .. Len(q) : q[k].receiver = MSG_CHAN /\ q[k].response.channel.name = nm})
        + Cardinality({c \in Consumers : h[c] # Null /\ h[c].receiver = MSG_CHAN
                                             /\ h[c].response.channel.name = nm})

\* C22: the update that __slot_callback applies when no other update for the
\* same name is left on the bus is the one published last for that name
LastAppliedIsLatest ==
    [][\A i \in Positions :
          (/\ queue # <<>> /\ Head(queue).receiver = MSG_CHAN
           /\ Head(queue).response.channel.name = channels[i].name
           /\ queue' = Tail(queue) /\ hand' = hand
           /\ UpdatesFor(queue', hand', channels[i].name) = 0)
          => channels'[i] = audit.latest[channels[i].name]]_vars

\* C10: a Slot whose download has returned does not hold the lock
ReleasedAfterDownload ==
    \A s \in Slots : ~InDownload(s) => (lock.owner # s /\ slot[s].permits = 0)

\* C23: the one envelope on the bus, destined for __slot_callback, is put back
\* by the other readers at most (number of readers - 1) times
RequeuedBelowConsumers ==
    audit.requeues <= Cardinality(Consumers) - 1

\* C24: every status (CurrentSlot) or progress (CurrentChannel) payload that is
\* on the bus for a Slot has a sequence field
EmissionsSequenced ==
    \A k \in 1 .. Len(queue) :
        (queue[k].receiver \in Slots
         /\ queue[k].response.type \in {"CurrentSlot", "CurrentChannel"})
        => \/ /\ queue[k].response.type = "CurrentSlot"
              /\ "sequence" \in DOMAIN queue[k].response.status
           \/ "sequence" \in DOMAIN queue[k].response

\* C25: the sequence a Slot's column holds never decreases, and a column, once
\* created, stays
AcceptedSequenceMonotone ==
    [][\A s \in Slots :
          display.slot_columns[s] # Null
          => /\ display'.slot_columns[s] # Null
             /\ display'.slot_columns[s].sequence >= display.slot_columns[s].sequence]_vars

\* the column of a Slot holds a later sequence while an earlier CurrentSlot of
\* that Slot is still on the bus
EarlierStillOnBus ==
    \E s \in Slots :
        /\ display.slot_columns[s] # Null
        /\ display.slot_columns[s].sequence >= 0
        /\ \E k \in 1 .. Len(queue) :
              /\ queue[k].receiver = s /\ queue[k].response.type = "CurrentSlot"
              /\ queue[k].response.status.sequence < display.slot_columns[s].sequence

\* a setting the Scheduler requires is not set
RequiredMissing ==
    /\ "config" \in DOMAIN main
    /\ \/ main.config.channels_file = "unset"
       \/ main.config.channel_prefix = "unset"
       \/ main.config.number_of_slots = 0

\* C26: when the channels file, the channel prefix file or the number of slots
\* is not set, no Slot exists (so no worker thread was started) and no Slot holds
\* a channel
ConfigErrorStartsNothing ==
    RequiredMissing
    => /\ Slots = {}
       /\ \A s \in Slots : slot[s].waiting_channel = Null /\ ~slot[s].busy

\* C27: when main() returns without a permission failure and a required setting
\* (output directory, temporary storage, channels file, channel prefix file,
\* number of slots) is not set, it returns 2
MissingSettingExitsTwo ==
    (/\ main.pc = "returned" /\ main.config.permitted
     /\ \/ ~main.config.output_directory
        \/ ~main.config.temporary_storage
        \/ RequiredMissing)
    => main.returned = 2

\* C28: when manager() leaves its loop after an interrupt and runs its stop
\* sequence, which writes the roster file, no Slot is inside a fetch
InterruptDrains ==
    [][MgrStop => \A s \in Slots : ~InDownload(s)]_vars

\* C29: the step in which the halt envelope for Slot k is taken off the bus
\* sets the stop flag of Slot k and wakes its worker, and signals no child
\* process
HaltStopsSlot ==
    [][(/\ queue # <<>> /\ Head(queue).receiver = MSG_SLOT
        /\ Head(queue).response.type = "int"
        /\ MonitorDeliver)
       => /\ slot'[Head(queue).response.value].shutdown
          /\ slot'[Head(queue).response.value].channel_event
          /\ procs' = procs]_vars

\* the envelopes of q whose destination is in D
OnBusFor(q, D) == Cardinality({k \in 1 .. Len(q) : q[k].receiver \in D})

\* C30: a periodic pass of the Subprocess Monitor, and its handling of a file
\* name or of a kill request, leave the roster as it is and add no envelope for
\* __slot_callback and none for the monitor itself
MonitorLeavesRoster ==
    [][((\E grown \in SUBSET Pids : MonitorPass(grown)) \/ MonitorDeliver)
       => /\ channels' = channels
          /\ OnBusFor(queue', {MSG_CHAN}) = OnBusFor(queue, {MSG_CHAN})
          /\ OnBusFor(queue', {MSG_SLOT}) <= OnBusFor(queue, {MSG_SLOT})]_vars

\* the monitor has attributed a child to a Slot and its file size report is on
\* the bus
MonitorHasReported ==
    \E p \in Pids :
        /\ monitor.subprocesses[p] # Null
        /\ monitor.subprocesses[p].slot_index \in Slots
        /\ \E k \in 1 .. Len(queue) :
              /\ queue[k].receiver = MSG_DISP /\ queue[k].response.type = "FileInfo"



\* the names of the roster rs in roster order
NamesOf(rs) == [i \in DOMAIN rs |-> rs[i].name]

\* C31: once __remove_duplicates has run, no step changes the length of the
\* roster or the name at any position, and no name is at two positions
RosterNamesFixed ==
    [][mgr.pc # "load"
       => /\ NamesOf(channels') = NamesOf(channels)
          /\ \A i, j \in DOMAIN channels' :
                channels'[i].name = channels'[j].name => i = j]_vars

\* every update of a roster of two channels has been applied: both were
\* fetched, and no envelope is left on the bus or in a reader's hand
UpdatesApplied ==
    /\ mgr.pc # "load" /\ budget = 0
    /\ Cardinality(DOMAIN channels) = 2
    /\ \A i \in DOMAIN channels :
          channels[i].last_complete # None \/ channels[i].last_error # None
    /\ queue = <<>> /\ \A c \in Consumers : hand[c] = Null

\* the monitor takes the kill request for Slot k off the bus
KillDelivery(k) ==
    /\ queue # <<>> /\ Head(queue).receiver = MSG_SLOT
    /\ Head(queue) = Envelope(MSG_SLOT, KillRequest(k))
    /\ MonitorDeliver

\* C32: the step that serves a kill request for Slot k leaves no process
\* attributed to Slot k tracked or alive, and leaves every other record and
\* process as it was
KillServesEveryProcess ==
    [][\A k \in Slots :
          KillDelivery(k)
          => \A p \in Pids :
                IF p \in Victims(k)
                THEN /\ monitor'.subprocesses[p] = Null
                     /\ procs'[p].state = "dead"
                ELSE /\ monitor'.subprocesses[p] = monitor.subprocesses[p]
                     /\ procs'[p] = procs[p]]_vars

\* C39: the monitor thread is still running after it has served a kill request
\* for a Slot with tracked processes
MonitorSurvivesKill ==
    [][\A k \in Slots :
          (KillDelivery(k) /\ Victims(k) # {}) => ~monitor'.crashed]_vars

\* C33: when a child has ended by itself (no signal was sent to it) and a pass
\* of the running monitor has nothing left to change, the table holds no record
\* of that child
GoneUntracked ==
    \A p \in Pids :
        (/\ procs[p].state = "dead" /\ procs[p].signals = <<>>
         /\ Alive("mon")
         /\ process_dead_processes(procs) = procs
         /\ scan_for_children(procs) = monitor.subprocesses)
        => monitor.subprocesses[p] = Null

\* the rank of roster position p as the table of breakpoints gives it
Tier(p) ==
    CASE p <= 25 -> 0
      [] p > 25 /\ p <= 50 -> 1
      [] p > 50 /\ p <= 100 -> 2
      [] p > 100 /\ p <= 200 -> 3
      [] p > 200 /\ p <= 300 -> 4
      [] OTHER -> 5

====
